---------------------------- MODULE Spec2Model ----------------------------
(***************************************************************************)
(* ClawLess intelligence router: complexity scoring, quality validation,  *)
(* the two backends, the router's execute() in both versions the          *)
(* repository carries (the implementation plan's class and the design     *)
(* document's code flow), and the cost ledger (StateManager.recordCost);  *)
(* the workflow runtime: WorkflowEngine with the rows StateManager keeps   *)
(* of an execution, WorkflowLoader and Scheduler, the chat compiler, and   *)
(* safeJsonParse.                                                          *)
(*                                                                         *)
(* Conventions.                                                            *)
(*  - A string the code inspects is a Text: its character length and the   *)
(*    sequence of its tokens (maximal word runs, URLs, punctuation).       *)
(*    Lower-casing and the regular expressions are computed per token.     *)
(*  - Money is counted in micro-USD, so the remote price of 3 and 15 USD   *)
(*    per million tokens is 3 and 15 per token.                            *)
(*  - A date is the index of a day; the wall clock only moves forward.     *)
(***************************************************************************)
EXTENDS Integers, Sequences, FiniteSets, Bags, TLC

VARIABLES
    impl,          \* which execute() the router runs: "plan" or "flow"
    config,        \* RouterConfig
    routing,       \* per routing call: position, task, observed operations
    costTracking,  \* table cost_tracking: a sequence of rows (id = index)
    today,         \* the wall clock's current day
    calls,         \* direct recordCost callers (ledger specification)
    cancelled,     \* per routing: 0, or the number of operations it had
                   \* invoked when its caller gave it up
    ollamaCall,    \* one OllamaProvider.execute call: position, timer, clock
    analysis,      \* one ComplexityAnalyzer.analyze call: task and score
    verdict,       \* one QualityValidator.validate call: inputs and result
    probes,        \* isAvailable calls on the two providers
    claudeCall,    \* one ClaudeProvider.execute call: model, usage, response
    engine,        \* one WorkflowEngine.executeWorkflow call and its rows
    scheduler,     \* the Scheduler, the workflow directory and node-cron's tasks
    compiler,      \* one WorkflowGenerator.compileFromChat call; stored drafts
    parsing        \* one safeJsonParse call: arguments and result

\* The components that are also exercised on their own.
unitVars == <<ollamaCall, analysis, verdict, probes, claudeCall>>

\* The workflow runtime and the helpers around it.
runtimeVars == <<engine, scheduler, compiler, parsing>>

vars ==
    <<impl, config, routing, costTracking, today, calls, cancelled, unitVars,
      runtimeVars>>

(***************************************************************************)
(* Bounds of the model.                                                    *)
(***************************************************************************)
NumRoutings == 2
NumCallers == 3
MaxDay == 1

Routings == 1..NumRoutings
Callers == 1..NumCallers
Days == 0..MaxDay

(***************************************************************************)
(* Texts.                                                                  *)
(***************************************************************************)
Text(n, toks) == [len |-> n, tokens |-> toks]

\* An absent or empty string: both are falsy where the code tests them.
NoText == Text(0, <<>>)

\* String.prototype.toLowerCase, on the tokens the model uses.
ToLowerCase(tok) ==
    CASE tok = "Should" -> "should"
      [] tok = "Maybe" -> "maybe"
      [] tok = "OR" -> "or"
      [] tok = "Extract" -> "extract"
      [] tok = "Review" -> "review"
      [] tok = "Acme" -> "acme"
      [] tok = "Globex" -> "globex"
      [] tok = "Initech" -> "initech"
      [] tok = "Hooli" -> "hooli"
      [] tok = "TODO" -> "todo"
      [] tok = "Mastodon" -> "mastodon"
      [] tok = "Fixme" -> "fixme"
      [] tok = "Placeholder" -> "placeholder"
      [] tok = "https://Example.com/x" -> "https://example.com/x"
      [] OTHER -> tok

(***************************************************************************)
(* ComplexityAnalyzer.                                                     *)
(***************************************************************************)
TaskTypes == {"extraction", "classification", "planning", "code_review",
              "security_analysis", "workflow_compilation", "error_recovery"}

\* typeScores without the default for a type the table lacks.
typeScoresNoDefault(type) ==
    CASE type = "extraction" -> 2
      [] type = "classification" -> 1
      [] type = "planning" -> 4
      [] type = "code_review" -> 8
      [] type = "security_analysis" -> 9
      [] type = "workflow_compilation" -> 7
      [] type = "error_recovery" -> 5
      [] OTHER -> 0

\* typeScores[task.type] || 3
typeScores(type) ==
    CASE type = "extraction" -> 2
      [] type = "classification" -> 1
      [] type = "planning" -> 4
      [] type = "code_review" -> 8
      [] type = "security_analysis" -> 9
      [] type = "workflow_compilation" -> 7
      [] type = "error_recovery" -> 5
      [] OTHER -> 3

HedgingWords == {"maybe", "might", "could", "should", "probably"}
DisjunctionWords == {"or", "either"}

\* /\?.*\?/ : two question marks with no line break between them.
MultipleQuestions(toks) ==
    \E i, j \in 1..Len(toks) :
        /\ i < j
        /\ toks[i] = "?"
        /\ toks[j] = "?"
        /\ \A k \in (i + 1)..(j - 1) : toks[k] # "\n"

detectAmbiguity(prompt) ==
    \/ \E i \in 1..Len(prompt.tokens) :
           ToLowerCase(prompt.tokens[i]) \in HedgingWords
    \/ MultipleQuestions(prompt.tokens)
    \/ \E i \in 1..Len(prompt.tokens) :
           ToLowerCase(prompt.tokens[i]) \in DisjunctionWords

\* getRecommendedModel with the remote threshold compared by <=.
getRecommendedModelThrough7(score) ==
    IF score < 2 THEN "none"
    ELSE IF score <= 7 THEN "ollama"
    ELSE "claude"

getRecommendedModel(score) ==
    IF score < 2 THEN "none"
    ELSE IF score < 7 THEN "ollama"
    ELSE "claude"

\* getContextSizeScore with the boundaries compared by >=.
getContextSizeScoreInclusive(context) ==
    IF context.len = 0 THEN 0
    ELSE IF context.len >= 10000 THEN 3
    ELSE IF context.len >= 5000 THEN 2
    ELSE IF context.len >= 2000 THEN 1
    ELSE 0

getContextSizeScore(context) ==
    IF context.len = 0 THEN 0
    ELSE IF context.len > 10000 THEN 3
    ELSE IF context.len > 5000 THEN 2
    ELSE IF context.len > 2000 THEN 1
    ELSE 0

\* analyze with the score capped at 10.
analyzeClamped(task) ==
    LET factors == [
            taskType |-> typeScores(task.type),
            contextSize |-> getContextSizeScore(task.context),
            ambiguity |-> IF detectAmbiguity(task.prompt) THEN 2 ELSE 0,
            reasoning |-> IF task.type = "planning" \/ task.type = "error_recovery"
                          THEN 3 ELSE 0,
            toolCount |-> IF task.tools > 3 THEN 1 ELSE 0 ]
        sum == factors.taskType + factors.contextSize + factors.ambiguity
               + factors.reasoning + factors.toolCount
               + (IF task.isRetry THEN 2 ELSE 0)
        score == IF sum > 10 THEN 10 ELSE sum
    IN  [score |-> score,
         factors |-> factors,
         recommendedModel |-> getRecommendedModel(score)]

analyze(task) ==
    LET factors == [
            taskType |-> typeScores(task.type),
            contextSize |-> getContextSizeScore(task.context),
            ambiguity |-> IF detectAmbiguity(task.prompt) THEN 2 ELSE 0,
            reasoning |-> IF task.type = "planning" \/ task.type = "error_recovery"
                          THEN 3 ELSE 0,
            toolCount |-> IF task.tools > 3 THEN 1 ELSE 0 ]
        score == factors.taskType + factors.contextSize + factors.ambiguity
                 + factors.reasoning + factors.toolCount
                 + (IF task.isRetry THEN 2 ELSE 0)
    IN  [score |-> score,
         factors |-> factors,
         recommendedModel |-> getRecommendedModel(score)]

(***************************************************************************)
(* QualityValidator.                                                       *)
(***************************************************************************)
Punctuation == {"{", "}", "[", "]", ":", ",", "?", "\n"}

\* JSON.parse on a token sequence: a flat object, a flat array, or one of
\* the literals; anything else throws.
JSONParse(toks) ==
    LET n == Len(toks)
        inner == IF n >= 2 THEN SubSeq(toks, 2, n - 1) ELSE <<>>
        m == Len(inner)
        objectOk ==
            \/ m = 0
            \/ /\ m % 4 = 3
               /\ \A i \in 1..m :
                     CASE i % 4 = 1 -> inner[i] \notin Punctuation
                       [] i % 4 = 2 -> inner[i] = ":"
                       [] i % 4 = 3 -> inner[i] \notin Punctuation
                       [] OTHER -> inner[i] = ","
        arrayOk ==
            \/ m = 0
            \/ /\ m % 2 = 1
               /\ \A i \in 1..m :
                     IF i % 2 = 1 THEN inner[i] \notin Punctuation
                     ELSE inner[i] = ","
    IN  IF n = 1 /\ toks[1] = "null"
            THEN [ok |-> TRUE, kind |-> "null", keys |-> {}]
        ELSE IF n = 1 /\ toks[1] \in {"true", "false", "42"}
            THEN [ok |-> TRUE, kind |-> "primitive", keys |-> {}]
        ELSE IF n >= 2 /\ toks[1] = "{" /\ toks[n] = "}" /\ objectOk
            THEN [ok |-> TRUE, kind |-> "object",
                  keys |-> {inner[i] : i \in {j \in 1..m : j % 4 = 1}}]
        ELSE IF n >= 2 /\ toks[1] = "[" /\ toks[n] = "]" /\ arrayOk
            THEN [ok |-> TRUE, kind |-> "array",
                  keys |-> {ToString(i) : i \in 0..((m + 1) \div 2 - 1)}]
        ELSE [ok |-> FALSE, kind |-> "throws", keys |-> {}]

\* Property names every object, and every array, answers to besides its own
\* members (a sample of Object.prototype, and of `length` and Array.prototype).
ObjectPrototype == {"constructor", "toString", "valueOf"}
ArrayProperties == {"length", "entries", "keys", "values"}

\* `field in parsed`: own and inherited properties.
In(field, parsed) ==
    \/ field \in parsed.keys
    \/ field \in ObjectPrototype
    \/ parsed.kind = "array" /\ field \in ArrayProperties

\* requiredFields.every(field => field in parsed): a TypeError, caught as a
\* failure, on null and on a primitive.
HasAllFields(parsed, requiredFields) ==
    /\ parsed.kind \in {"object", "array"}
    /\ \A field \in requiredFields : In(field, parsed)

\* /https?:\/\/[^\s]+/g and /\b[A-Z][a-z]+\b/g on one token.
IsUrl(tok) == tok \in {"https://github.com/user/repo", "https://Example.com/x"}

CapitalizedWords(tok) ==
    CASE tok \in {"Should", "Maybe", "Extract", "Review", "Acme", "Globex",
                  "Initech", "Hooli", "Fixme", "Placeholder", "Mastodon"} -> {tok}
      [] tok = "https://Example.com/x" -> {"Example"}
      [] OTHER -> {}

extractEntities(text) ==
    {text.tokens[i] : i \in {j \in 1..Len(text.tokens) : IsUrl(text.tokens[j])}}
    \cup UNION {CapitalizedWords(text.tokens[i]) : i \in 1..Len(text.tokens)}

\* Whether a lower-cased token has the marker as a substring.
HasSubstring(tok, marker) ==
    \/ tok = marker
    \/ marker = "example.com" /\ tok = "https://example.com/x"
    \/ marker = "todo" /\ tok = "mastodon"

\* Includes with the content compared as it is, not lower-cased.
IncludesCaseSensitive(content, marker) ==
    \E i \in 1..Len(content.tokens) : HasSubstring(content.tokens[i], marker)

\* content.includes(marker) on the lower-cased content.
Includes(content, marker) ==
    \E i \in 1..Len(content.tokens) :
        HasSubstring(ToLowerCase(content.tokens[i]), marker)

\* detectHallucination with the entity ratio compared by >=.
detectHallucinationAtHalf(response, task) ==
    IF Includes(response.content, "todo") \/ Includes(response.content, "fixme")
        THEN TRUE
    ELSE IF Includes(response.content, "example.com")
            \/ Includes(response.content, "placeholder")
        THEN TRUE
    ELSE IF task.context # NoText
        THEN LET responseEntities == extractEntities(response.content)
                 contextEntities == extractEntities(task.context)
                 hallucinated == responseEntities \ contextEntities
             IN  2 * Cardinality(hallucinated) >= Cardinality(responseEntities)
    ELSE FALSE

detectHallucination(response, task) ==
    IF Includes(response.content, "todo") \/ Includes(response.content, "fixme")
        THEN TRUE
    ELSE IF Includes(response.content, "example.com")
            \/ Includes(response.content, "placeholder")
        THEN TRUE
    ELSE IF task.context # NoText
        THEN LET responseEntities == extractEntities(response.content)
                 contextEntities == extractEntities(task.context)
                 hallucinated == responseEntities \ contextEntities
             IN  2 * Cardinality(hallucinated) > Cardinality(responseEntities)
    ELSE FALSE

\* validate with the parse failure swallowed: only a missing field fails.
validateParseSwallowed(response, task) ==
    LET parsed == JSONParse(response.content.tokens)
    IN  IF task.expectsJSON /\ parsed.ok /\ task.requiredFields # {}
           /\ ~HasAllFields(parsed, task.requiredFields)
            THEN FALSE
        ELSE IF task.minLength # 0 /\ response.content.len < task.minLength
            THEN FALSE
        ELSE IF detectHallucination(response, task)
            THEN FALSE
        ELSE TRUE

validate(response, task) ==
    LET parsed == JSONParse(response.content.tokens)
    IN  IF task.expectsJSON
           /\ (~parsed.ok \/ (task.requiredFields # {}
                              /\ ~HasAllFields(parsed, task.requiredFields)))
            THEN FALSE
        ELSE IF task.minLength # 0 /\ response.content.len < task.minLength
            THEN FALSE
        ELSE IF detectHallucination(response, task)
            THEN FALSE
        ELSE TRUE

(***************************************************************************)
(* Backends.  The wire reply of a backend is drawn from a small set; the   *)
(* provider turns it into an AgentResponse.                                *)
(***************************************************************************)
NoResponse ==
    [content |-> NoText, modelUsed |-> "", tokensInput |-> 0,
     tokensOutput |-> 0, cost |-> 0]

\* new Error(message); `detail` is the text a template literal appends.
Error(name, message) == [name |-> name, message |-> message, detail |-> ""]
NoError == Error("", "")

\* data.prompt_eval_count || 0
OrZero(data, field) == IF field \in DOMAIN data THEN data[field] ELSE 0

\* OllamaResponse priced like a remote response.
OllamaResponseCharged(data) ==
    [content |-> data.response,
     modelUsed |-> "ollama",
     tokensInput |-> OrZero(data, "prompt_eval_count"),
     tokensOutput |-> OrZero(data, "eval_count"),
     cost |-> 3 * OrZero(data, "prompt_eval_count") + 15 * OrZero(data, "eval_count")]

OllamaResponse(data) ==
    [content |-> data.response,
     modelUsed |-> "ollama",
     tokensInput |-> OrZero(data, "prompt_eval_count"),
     tokensOutput |-> OrZero(data, "eval_count"),
     cost |-> 0]

\* ClaudeCost with the two prices exchanged.
ClaudeCostSwapped(tokensInput, tokensOutput) == tokensInput * 15 + tokensOutput * 3

\* (tokensInput * 3 / 1_000_000) + (tokensOutput * 15 / 1_000_000), micro-USD
ClaudeCost(tokensInput, tokensOutput) == tokensInput * 3 + tokensOutput * 15

ClaudeResponse(message) ==
    [content |-> message.text,
     modelUsed |-> "claude",
     tokensInput |-> message.input_tokens,
     tokensOutput |-> message.output_tokens,
     cost |-> ClaudeCost(message.input_tokens, message.output_tokens)]

\* OllamaProvider.execute's catch: every failure is rethrown wrapped.
OllamaError(cause) ==
    [name |-> "Error", message |-> "Ollama execution failed: ", detail |-> cause]

OllamaFailures == {"The operation was aborted", "Ollama request failed"}

OllamaReplies ==
    { [response |-> Text(9, <<"user", "repo">>),
       prompt_eval_count |-> 4, eval_count |-> 2],
      [response |-> Text(14, <<"not", "valid", "json">>)],
      [response |-> Text(15, <<"{", "name", ":", "Acme", "}">>),
       prompt_eval_count |-> 5, eval_count |-> 3],
      [response |-> Text(10, <<"TODO", ":", "Acme">>),
       prompt_eval_count |-> 4, eval_count |-> 1] }

ClaudeMessages ==
    { [text |-> Text(12, <<"{", "name", ":", "Acme", "}">>),
       input_tokens |-> 6, output_tokens |-> 2],
      [text |-> Text(20, <<"Review", ":", "fine">>),
       input_tokens |-> 3, output_tokens |-> 1] }

ClaudeErrors == {Error("APIError", "529 overloaded")}

(***************************************************************************)
(* OllamaProvider.execute, one call followed through its awaits.  Time is  *)
(* counted in ticks from the call; a timer that is due fires before time   *)
(* moves on.                                                               *)
(***************************************************************************)
MaxTime == 4

\* options.timeout as the router passes it (config.ollamaTimeout); 0 is falsy.
Timeouts == {0, 1, 2}

\* options.timeout || 5000
DefaultTimeout == 5000

IdleOllamaCall ==
    [pc |-> "idle", now |-> 0, timer |-> "none", deadline |-> 0,
     aborted |-> FALSE, result |-> NoResponse, error |-> NoError]

InFlight == {"fetch", "response.json"}

\* new AbortController(); setTimeout(() => controller.abort(), ...); fetch(...)
OllamaExecute(timeout) ==
    /\ ollamaCall.pc = "idle"
    /\ ollamaCall' = [ollamaCall EXCEPT
          !.pc = "fetch",
          !.timer = "armed",
          !.deadline = ollamaCall.now
                       + (IF timeout # 0 THEN timeout ELSE DefaultTimeout)]
    /\ UNCHANGED <<impl, config, routing, costTracking, today, calls, cancelled,
                   analysis, verdict, probes, claudeCall,
                   runtimeVars>>

\* fetch resolves with the response head: clearTimeout, then response.ok.
FetchResolves(ok) ==
    /\ ollamaCall.pc = "fetch"
    /\ ollamaCall' = [ollamaCall EXCEPT
          !.timer = "cleared",
          !.pc = IF ok THEN "response.json" ELSE "threw",
          !.error = IF ok THEN NoError ELSE OllamaError("Ollama request failed")]
    /\ UNCHANGED <<impl, config, routing, costTracking, today, calls, cancelled,
                   analysis, verdict, probes, claudeCall,
                   runtimeVars>>

\* fetch rejects (connection refused, reset): the catch clears the timer.
FetchRejects ==
    /\ ollamaCall.pc = "fetch"
    /\ ollamaCall' = [ollamaCall EXCEPT
          !.timer = "cleared",
          !.pc = "threw",
          !.error = OllamaError("fetch failed")]
    /\ UNCHANGED <<impl, config, routing, costTracking, today, calls, cancelled,
                   analysis, verdict, probes, claudeCall,
                   runtimeVars>>

\* The timer callback: controller.abort() rejects the pending fetch, and the
\* catch rethrows it wrapped.
TimerFires ==
    /\ ollamaCall.timer = "armed"
    /\ ollamaCall.now >= ollamaCall.deadline
    /\ ollamaCall' = [ollamaCall EXCEPT
          !.timer = "fired",
          !.aborted = TRUE,
          !.pc = IF ollamaCall.pc \in InFlight THEN "threw" ELSE @,
          !.error = IF ollamaCall.pc \in InFlight
                    THEN OllamaError("The operation was aborted") ELSE @]
    /\ UNCHANGED <<impl, config, routing, costTracking, today, calls, cancelled,
                   analysis, verdict, probes, claudeCall,
                   runtimeVars>>

\* response.json() resolves with the parsed body.
JsonResolves(data) ==
    /\ ollamaCall.pc = "response.json"
    /\ ollamaCall' = [ollamaCall EXCEPT
          !.pc = "returned", !.result = OllamaResponse(data)]
    /\ UNCHANGED <<impl, config, routing, costTracking, today, calls, cancelled,
                   analysis, verdict, probes, claudeCall,
                   runtimeVars>>

\* response.json() rejects: the body broke off or is not JSON.
JsonRejects ==
    /\ ollamaCall.pc = "response.json"
    /\ ollamaCall' = [ollamaCall EXCEPT
          !.timer = "cleared",
          !.pc = "threw",
          !.error = OllamaError("Unexpected end of JSON input")]
    /\ UNCHANGED <<impl, config, routing, costTracking, today, calls, cancelled,
                   analysis, verdict, probes, claudeCall,
                   runtimeVars>>

\* A tick goes by while the call is suspended on the network.
TimePasses ==
    /\ ollamaCall.pc \in InFlight
    /\ ollamaCall.now < MaxTime
    /\ ~(ollamaCall.timer = "armed" /\ ollamaCall.now >= ollamaCall.deadline)
    /\ ollamaCall' = [ollamaCall EXCEPT !.now = @ + 1]
    /\ UNCHANGED <<impl, config, routing, costTracking, today, calls, cancelled,
                   analysis, verdict, probes, claudeCall,
                   runtimeVars>>

(***************************************************************************)
(* isAvailable of the two providers.  Several probes may be pending at     *)
(* once; each is followed through its one await.                           *)
(***************************************************************************)
NumProbes == 3

Probes == 1..NumProbes

IdleProbe == [pc |-> "idle", backend |-> "", request |-> "", outcome |-> ""]

\* How the underlying request of a probe can fail.
ProbeErrors == {"fetch failed", "401 authentication_error"}

\* isAvailable() up to its await: fetch(`${baseUrl}/api/tags`) or
\* client.messages.create({max_tokens: 10, ...}).
IsAvailable(p, backend) ==
    /\ probes[p].pc = "idle"
    /\ probes' = [probes EXCEPT ![p] = [@ EXCEPT !.pc = "pending", !.backend = backend]]
    /\ UNCHANGED <<impl, config, routing, costTracking, today, calls, cancelled,
                   ollamaCall, analysis, verdict, claudeCall,
                   runtimeVars>>

\* OllamaProvider.isAvailable: return response.ok
OllamaTagsResolves(p, ok) ==
    /\ probes[p].pc = "pending"
    /\ probes[p].backend = "ollama"
    /\ probes' = [probes EXCEPT ![p] =
          [@ EXCEPT !.pc = "done", !.request = IF ok THEN "200 OK" ELSE "503 Service Unavailable", !.outcome = IF ok THEN "true" ELSE "false"]]
    /\ UNCHANGED <<impl, config, routing, costTracking, today, calls, cancelled,
                   ollamaCall, analysis, verdict, claudeCall,
                   runtimeVars>>

\* OllamaTagsRejects with the rejection left uncaught.
OllamaTagsRejectsUncaught(p, err) ==
    /\ probes[p].pc = "pending"
    /\ probes[p].backend = "ollama"
    /\ probes' = [probes EXCEPT ![p] =
          [@ EXCEPT !.pc = "done", !.request = err, !.outcome = "threw"]]
    /\ UNCHANGED <<impl, config, routing, costTracking, today, calls, cancelled,
                   ollamaCall, analysis, verdict, claudeCall,
                   runtimeVars>>

\* OllamaProvider.isAvailable: fetch rejects, catch { return false }
OllamaTagsRejects(p, err) ==
    /\ probes[p].pc = "pending"
    /\ probes[p].backend = "ollama"
    /\ probes' = [probes EXCEPT ![p] =
          [@ EXCEPT !.pc = "done", !.request = err, !.outcome = "false"]]
    /\ UNCHANGED <<impl, config, routing, costTracking, today, calls, cancelled,
                   ollamaCall, analysis, verdict, claudeCall,
                   runtimeVars>>

\* ClaudeProvider.isAvailable: messages.create resolves, return true
ClaudeCreateResolves(p) ==
    /\ probes[p].pc = "pending"
    /\ probes[p].backend = "claude"
    /\ probes' = [probes EXCEPT ![p] =
          [@ EXCEPT !.pc = "done", !.request = "200 OK", !.outcome = "true"]]
    /\ UNCHANGED <<impl, config, routing, costTracking, today, calls, cancelled,
                   ollamaCall, analysis, verdict, claudeCall,
                   runtimeVars>>

\* ClaudeProvider.isAvailable: messages.create rejects, catch { return false }
ClaudeCreateRejects(p, err) ==
    /\ probes[p].pc = "pending"
    /\ probes[p].backend = "claude"
    /\ probes' = [probes EXCEPT ![p] =
          [@ EXCEPT !.pc = "done", !.request = err, !.outcome = "false"]]
    /\ UNCHANGED <<impl, config, routing, costTracking, today, calls, cancelled,
                   ollamaCall, analysis, verdict, claudeCall,
                   runtimeVars>>

(***************************************************************************)
(* ClaudeProvider.execute, one call: the provider is constructed with a    *)
(* model and turns the API's message into an AgentResponse.                *)
(***************************************************************************)
\* constructor(apiKey, model = 'claude-sonnet-4-5-20250929')
ClaudeModels == {"claude-sonnet-4-5-20250929", "claude-opus-4-1-20250805"}

MaxTokens == 5

\* response.content[0].text and response.usage of messages.create.
ClaudeUsages ==
    { [text |-> text, input_tokens |-> i, output_tokens |-> o] :
        text \in {Text(20, <<"Review", ":", "fine">>), NoText},
        i \in 0..MaxTokens, o \in 0..MaxTokens }

IdleClaudeCall ==
    [pc |-> "idle", model |-> "",
     message |-> [text |-> NoText, input_tokens |-> 0, output_tokens |-> 0],
     result |-> NoResponse]

ClaudeExecute(model, message) ==
    /\ claudeCall.pc = "idle"
    /\ claudeCall' = [pc |-> "returned", model |-> model, message |-> message,
                      result |-> ClaudeResponse(message)]
    /\ UNCHANGED <<impl, config, routing, costTracking, today, calls, cancelled,
                   ollamaCall, analysis, verdict, probes,
                   runtimeVars>>

(***************************************************************************)
(* Tasks routed in the router specification.                               *)
(***************************************************************************)
Task(type, prompt, context, tools, expectsJSON, requiredFields, minLength, isRetry) ==
    [type |-> type, prompt |-> prompt, context |-> context, tools |-> tools,
     expectsJSON |-> expectsJSON, requiredFields |-> requiredFields,
     minLength |-> minLength, isRetry |-> isRetry]

NoTask == Task("", NoText, NoText, 0, FALSE, {}, 0, FALSE)

RouterTasks ==
    { Task("classification", Text(15, <<"is", "this", "urgent", "?">>),
           NoText, 0, FALSE, {}, 0, FALSE),
      Task("extraction",
           Text(52, <<"Extract", "repo", "name", "from", ":",
                      "https://github.com/user/repo">>),
           NoText, 0, FALSE, {}, 0, FALSE),
      Task("extraction", Text(12, <<"Extract", "data">>),
           NoText, 0, TRUE, {}, 0, FALSE),
      Task("extraction", Text(12, <<"Extract", "data">>),
           Text(10001, <<"Acme", "user", "repo">>), 4, FALSE, {}, 0, FALSE),
      Task("workflow_compilation", Text(20, <<"daily", "summary">>),
           NoText, 0, TRUE, {}, 0, FALSE),
      Task("code_review",
           Text(36, <<"Review", "this", "code", "for", "security", "issues">>),
           Text(35, <<"function", "login">>), 0, FALSE, {}, 0, FALSE) }

(***************************************************************************)
(* CostLedger: StateManager.recordCost on table cost_tracking.             *)
(***************************************************************************)
\* The conflict target without the date: UNIQUE(model).
KeyRowsOfModel(table, date, model) ==
    {i \in 1..Len(table) : table[i].model = model}

\* Rows in conflict with (date, model) under UNIQUE(date, model).
KeyRows(table, date, model) ==
    {i \in 1..Len(table) : table[i].date = date /\ table[i].model = model}

\* DoUpdate that stores the new values instead of adding them.
DoUpdateOverwrite(row, tokensInput, tokensOutput, cost) ==
    [row EXCEPT !.tokens_input = tokensInput,
                !.tokens_output = tokensOutput,
                !.cost = cost,
                !.execution_count = @ + 1]

\* ON CONFLICT(date, model) DO UPDATE SET ... of the upsert.
DoUpdate(row, tokensInput, tokensOutput, cost) ==
    [row EXCEPT !.tokens_input = @ + tokensInput,
                !.tokens_output = @ + tokensOutput,
                !.cost = @ + cost,
                !.execution_count = @ + 1]

\* INSERT INTO cost_tracking ... VALUES (?, ?, ?, ?, ?, 1)
InsertRow(date, model, tokensInput, tokensOutput, cost) ==
    [date |-> date, model |-> model, tokens_input |-> tokensInput,
     tokens_output |-> tokensOutput, cost |-> cost, execution_count |-> 1]

\* recordCost as a plain INSERT, with no conflict clause.
recordCostInsertOnly(table, date, model, tokensInput, tokensOutput, cost) ==
    Append(table, InsertRow(date, model, tokensInput, tokensOutput, cost))

recordCost(table, date, model, tokensInput, tokensOutput, cost) ==
    IF KeyRows(table, date, model) = {}
    THEN Append(table, InsertRow(date, model, tokensInput, tokensOutput, cost))
    ELSE [i \in 1..Len(table) |->
             IF i \in KeyRows(table, date, model)
             THEN DoUpdate(table[i], tokensInput, tokensOutput, cost)
             ELSE table[i]]

\* this.recordUsage(result) of the code flow: the result's usage goes to the ledger.
recordUsage(table, date, result) ==
    recordCost(table, date, result.modelUsed, result.tokensInput,
               result.tokensOutput, result.cost)

(***************************************************************************)
(* IntelligenceRouter.  A routing is suspended at each await; every action *)
(* below is one synchronous stretch of execute().                          *)
(***************************************************************************)
\* One backend operation a routing invoked, and how it settled: the Response
\* it resolved with, or the error a remote execute rejected with (a local
\* error is only logged by the catch block, or thrown on to the caller).
Op(op) == [op |-> op, outcome |-> "pending", result |-> NoResponse, error |-> NoError]

IdleRouting ==
    [pc |-> "idle", task |-> NoTask, inTry |-> FALSE, ops |-> <<>>,
     validations |-> <<>>, recorded |-> <<>>, status |-> "pending",
     response |-> NoResponse, error |-> NoError]

\* A backend operation is invoked and the routing suspends on it.
Invoke(rt, op, inTry) ==
    [rt EXCEPT !.ops = Append(@, Op(op)), !.pc = op, !.inTry = inTry]

\* The operation the routing is suspended on settles.
Settle(rt, outcome, result, error) ==
    [rt EXCEPT !.ops[Len(rt.ops)] =
        [@ EXCEPT !.outcome = outcome, !.result = result, !.error = error]]

Return(rt, result) ==
    [rt EXCEPT !.pc = "done", !.status = "returned", !.response = result]

Throw(rt, err) ==
    [rt EXCEPT !.pc = "done", !.status = "threw", !.error = err]

Validated(rt, result) ==
    [rt EXCEPT !.validations =
        Append(@, [response |-> result, ok |-> validate(result, rt.task)])]

Recorded(rt, result) == [rt EXCEPT !.recorded = Append(@, result)]

DeterministicPlan == Error("Error", "Deterministic tasks should not use LLM router")
DeterministicFlow == Error("Error", "Task is deterministic, should not use LLM router")
NotAvailable == Error("Error", "Ollama not available")

\* Routings are numbered in the order execute() is called.
IsNextCall(r) ==
    /\ routing[r].pc = "idle"
    /\ \A q \in Routings : q < r => routing[q].pc # "idle"

(***************************************************************************)
(* execute() of the implementation plan (class IntelligenceRouter).        *)
(***************************************************************************)
\* PlanBranch with the deterministic threshold off by one.
PlanBranchFromOne(score) ==
    IF score.score < 1 THEN "trivial"
    ELSE IF score.score < 6 THEN "simple"
    ELSE IF score.score < 8 THEN "moderate"
    ELSE "complex"

\* The branch execute() takes for a score.
PlanBranch(score) ==
    IF score.score < 2 THEN "trivial"
    ELSE IF score.score < 6 THEN "simple"
    ELSE IF score.score < 8 THEN "moderate"
    ELSE "complex"

PlanExecute(r, task) ==
    /\ impl = "plan"
    /\ IsNextCall(r)
    /\ LET rt == [routing[r] EXCEPT !.task = task]
           branch == PlanBranch(analyze(task))
       IN  routing' = [routing EXCEPT ![r] =
             CASE branch = "trivial" -> Throw(rt, DeterministicPlan)
               [] branch = "simple" -> Invoke(rt, "ollama.isAvailable", FALSE)
               [] branch = "moderate" /\ config.ollamaFallback ->
                    Invoke(rt, "ollama.isAvailable", TRUE)
               [] OTHER -> Invoke(rt, "claude.execute", FALSE)]
    /\ UNCHANGED <<impl, config, costTracking, today, calls, cancelled, unitVars,
                   runtimeVars>>

\* executeWithOllama after the availability check.
PlanIsAvailable(r, available) ==
    /\ impl = "plan"
    /\ routing[r].pc = "ollama.isAvailable"
    /\ LET rt == Settle(routing[r], IF available THEN "true" ELSE "false",
                        NoResponse, NoError)
       IN  routing' = [routing EXCEPT ![r] =
             IF available THEN Invoke(rt, "ollama.execute", rt.inTry)
             ELSE IF rt.inTry THEN Invoke(rt, "claude.execute", FALSE)
             ELSE Throw(rt, NotAvailable)]
    /\ UNCHANGED <<impl, config, costTracking, today, calls, cancelled, unitVars,
                   runtimeVars>>

\* PlanOllamaReturns with the reply kept in a field of the router: it is
\* delivered to every call suspended on ollama.execute.
PlanOllamaReturnsShared(r, data) ==
    /\ impl = "plan"
    /\ routing[r].pc = "ollama.execute"
    /\ LET result == OllamaResponse(data)
       IN  routing' = [q \in Routings |->
             IF routing[q].pc # "ollama.execute" THEN routing[q]
             ELSE LET rt == Settle(routing[q], "returned", result, NoError)
                  IN  IF ~rt.inTry THEN Return(rt, result)
                      ELSE IF validate(result, rt.task)
                          THEN Return(Validated(rt, result), result)
                      ELSE Invoke(Validated(rt, result), "claude.execute", FALSE)]
    /\ UNCHANGED <<impl, config, costTracking, today, calls, cancelled, unitVars,
                   runtimeVars>>

PlanOllamaReturns(r, data) ==
    /\ impl = "plan"
    /\ routing[r].pc = "ollama.execute"
    /\ LET result == OllamaResponse(data)
           rt == Settle(routing[r], "returned", result, NoError)
       IN  routing' = [routing EXCEPT ![r] =
             IF ~rt.inTry THEN Return(rt, result)
             ELSE IF validate(result, rt.task)
                 THEN Return(Validated(rt, result), result)
             ELSE Invoke(Validated(rt, result), "claude.execute", FALSE)]
    /\ UNCHANGED <<impl, config, costTracking, today, calls, cancelled, unitVars,
                   runtimeVars>>

PlanOllamaThrows(r, cause) ==
    /\ impl = "plan"
    /\ routing[r].pc = "ollama.execute"
    /\ LET rt == Settle(routing[r], "threw", NoResponse, NoError)
       IN  routing' = [routing EXCEPT ![r] =
             IF rt.inTry THEN Invoke(rt, "claude.execute", FALSE)
             ELSE Throw(rt, OllamaError(cause))]
    /\ UNCHANGED <<impl, config, costTracking, today, calls, cancelled, unitVars,
                   runtimeVars>>

PlanClaudeReturns(r, message) ==
    /\ impl = "plan"
    /\ routing[r].pc = "claude.execute"
    /\ LET result == ClaudeResponse(message)
       IN  routing' = [routing EXCEPT ![r] =
             Return(Settle(@, "returned", result, NoError), result)]
    /\ UNCHANGED <<impl, config, costTracking, today, calls, cancelled, unitVars,
                   runtimeVars>>

PlanClaudeThrows(r, err) ==
    /\ impl = "plan"
    /\ routing[r].pc = "claude.execute"
    /\ routing' = [routing EXCEPT ![r] =
          Throw(Settle(@, "threw", NoResponse, err), err)]
    /\ UNCHANGED <<impl, config, costTracking, today, calls, cancelled, unitVars,
                   runtimeVars>>

(***************************************************************************)
(* execute() of the design document's code flow.                           *)
(***************************************************************************)
\* model === 'ollama' || score.score < 8
FlowTriesOllama(score) ==
    score.recommendedModel = "ollama" \/ score.score < 8

FlowExecute(r, task) ==
    /\ impl = "flow"
    /\ IsNextCall(r)
    /\ LET rt == [routing[r] EXCEPT !.task = task]
           score == analyze(task)
       IN  routing' = [routing EXCEPT ![r] =
             IF score.recommendedModel = "none"
                 THEN Throw(rt, DeterministicFlow)
             ELSE IF FlowTriesOllama(score) /\ config.ollamaFallback
                 THEN Invoke(rt, "ollama.isAvailable", TRUE)
             ELSE Invoke(rt, "claude.execute", FALSE)]
    /\ UNCHANGED <<impl, config, costTracking, today, calls, cancelled, unitVars,
                   runtimeVars>>

\* `return await this.claude.execute(task)` stays inside the try block.
FlowIsAvailable(r, available) ==
    /\ impl = "flow"
    /\ routing[r].pc = "ollama.isAvailable"
    /\ LET rt == Settle(routing[r], IF available THEN "true" ELSE "false",
                        NoResponse, NoError)
       IN  routing' = [routing EXCEPT ![r] =
             IF available THEN Invoke(rt, "ollama.execute", TRUE)
             ELSE Invoke(rt, "claude.execute", TRUE)]
    /\ UNCHANGED <<impl, config, costTracking, today, calls, cancelled, unitVars,
                   runtimeVars>>

FlowOllamaReturns(r, data) ==
    /\ impl = "flow"
    /\ routing[r].pc = "ollama.execute"
    /\ LET result == OllamaResponse(data)
           rt == Validated(Settle(routing[r], "returned", result, NoError), result)
           ok == validate(result, rt.task)
       IN  /\ routing' = [routing EXCEPT ![r] =
                IF ok THEN Return(Recorded(rt, result), result)
                ELSE Invoke(rt, "claude.execute", FALSE)]
           /\ costTracking' = IF ok THEN recordUsage(costTracking, today, result)
                              ELSE costTracking
    /\ UNCHANGED <<impl, config, today, calls, cancelled, unitVars,
                   runtimeVars>>

FlowOllamaThrows(r, cause) ==
    /\ impl = "flow"
    /\ routing[r].pc = "ollama.execute"
    /\ LET rt == Settle(routing[r], "threw", NoResponse, NoError)
       IN  routing' = [routing EXCEPT ![r] = Invoke(rt, "claude.execute", FALSE)]
    /\ UNCHANGED <<impl, config, costTracking, today, calls, cancelled, unitVars,
                   runtimeVars>>

\* FlowClaudeReturns with the quality check run on the remote Response too.
FlowClaudeReturnsValidated(r, message) ==
    /\ impl = "flow"
    /\ routing[r].pc = "claude.execute"
    /\ LET result == ClaudeResponse(message)
           rt == Validated(Settle(routing[r], "returned", result, NoError), result)
       IN  /\ routing' = [routing EXCEPT ![r] = Return(Recorded(rt, result), result)]
           /\ costTracking' = recordUsage(costTracking, today, result)
    /\ UNCHANGED <<impl, config, today, calls, cancelled, unitVars,
                   runtimeVars>>

FlowClaudeReturns(r, message) ==
    /\ impl = "flow"
    /\ routing[r].pc = "claude.execute"
    /\ LET result == ClaudeResponse(message)
           rt == Settle(routing[r], "returned", result, NoError)
       IN  /\ routing' = [routing EXCEPT ![r] =
                IF rt.inTry THEN Return(rt, result)
                ELSE Return(Recorded(rt, result), result)]
           /\ costTracking' = IF rt.inTry THEN costTracking
                              ELSE recordUsage(costTracking, today, result)
    /\ UNCHANGED <<impl, config, today, calls, cancelled, unitVars,
                   runtimeVars>>

\* Inside the try block the rejection is caught and step 5 calls Claude again.
FlowClaudeThrows(r, err) ==
    /\ impl = "flow"
    /\ routing[r].pc = "claude.execute"
    /\ LET rt == Settle(routing[r], "threw", NoResponse, err)
       IN  routing' = [routing EXCEPT ![r] =
             IF rt.inTry THEN Invoke(rt, "claude.execute", FALSE)
             ELSE Throw(rt, err)]
    /\ UNCHANGED <<impl, config, costTracking, today, calls, cancelled, unitVars,
                   runtimeVars>>

(***************************************************************************)
(* The caller of execute(task) gives the routing up while the local        *)
(* attempt is in flight.  execute() and the providers take no cancellation *)
(* signal and the provider's AbortController is private to its call, so    *)
(* nothing the router or a backend reads changes.                          *)
(***************************************************************************)
Cancel(r) ==
    /\ routing[r].pc = "ollama.execute"
    /\ cancelled[r] = 0
    /\ cancelled' = [cancelled EXCEPT ![r] = Len(routing[r].ops)]
    /\ UNCHANGED <<impl, config, routing, costTracking, today, calls, unitVars,
                   runtimeVars>>

(***************************************************************************)
(* ComplexityAnalyzer.analyze and QualityValidator.validate called on      *)
(* their own.                                                              *)
(***************************************************************************)
\* 'summarization' is not a TaskType: it takes the table's default.
AnalyzerTypes == TaskTypes \cup {"summarization"}

AnalyzerPrompts ==
    { Text(12, <<"Extract", "data">>),
      Text(39, <<"Should", "I", "refactor", "module", "A", "or", "module", "B", "?">>),
      Text(24, <<"is", "this", "urgent", "?", "really", "?">>) }

ContextLengths == {0, 1, 2000, 2001, 5000, 5001, 10000, 10001, 20000}

ContextOfLength(n) == IF n = 0 THEN NoText ELSE Text(n, <<"log", "line">>)

ToolCounts == {0, 3, 4}

AnalyzerTasks ==
    { Task(type, prompt, ContextOfLength(n), tools, FALSE, {}, 0, isRetry) :
        type \in AnalyzerTypes, prompt \in AnalyzerPrompts, n \in ContextLengths,
        tools \in ToolCounts, isRetry \in BOOLEAN }

NoScore ==
    [score |-> 0,
     factors |-> [taskType |-> 0, contextSize |-> 0, ambiguity |-> 0,
                  reasoning |-> 0, toolCount |-> 0],
     recommendedModel |-> "none"]

NoAnalysis == [pc |-> "idle", task |-> NoTask, score |-> NoScore]

Analyze(task) ==
    /\ analysis.pc = "idle"
    /\ analysis' = [pc |-> "done", task |-> task, score |-> analyze(task)]
    /\ UNCHANGED <<impl, config, routing, costTracking, today, calls, cancelled,
                   ollamaCall, verdict, probes, claudeCall,
                   runtimeVars>>

ValidatorContents ==
    { Text(9, <<"user", "repo">>),
      Text(14, <<"not", "valid", "json">>),
      Text(60, <<"{", "name", ":", "fine", ",", "url", "}">>),
      Text(2, <<"{", "}">>),
      Text(15, <<"{", "name", ":", "Acme", "}">>),
      Text(9, <<"[", "a", ",", "b", "]">>),
      Text(4, <<"null">>),
      Text(2, <<"42">>),
      Text(10, <<"TODO", ":", "Acme">>),
      Text(13, <<"Mastodon", "post">>),
      Text(11, <<"Fixme", "later">>),
      Text(26, <<"see", "https://Example.com/x">>),
      Text(60, <<"{", "name", ":", "Placeholder", "}">>),
      Text(12, <<"todo", ":", "none">>),
      Text(11, <<"Acme", "Acme">>),
      Text(11, <<"Acme", "Globex">>),
      Text(19, <<"Acme", "Globex", "Initech">>),
      Text(25, <<"Acme", "Globex", "Initech", "Hooli">>) }

ValidatorContexts ==
    { NoText,
      Text(8, <<"log", "line">>),
      Text(4, <<"Acme">>),
      Text(11, <<"Acme", "Globex">>) }

RequiredFieldSets == {{}, {"name"}, {"name", "url"}, {"length"}, {"constructor"}}

MinLengths == {0, 10, 50}

ValidatorTasks ==
    { Task("extraction", Text(12, <<"Extract", "data">>), context, 0,
           expectsJSON, requiredFields, minLength, FALSE) :
        context \in ValidatorContexts, expectsJSON \in BOOLEAN,
        requiredFields \in RequiredFieldSets, minLength \in MinLengths }

NoVerdict == [pc |-> "idle", response |-> NoResponse, task |-> NoTask, valid |-> FALSE]

\* The validator is only handed responses of the local backend.
Validate(content, task) ==
    LET response == OllamaResponse([response |-> content])
    IN  /\ verdict.pc = "idle"
        /\ verdict' = [pc |-> "done", response |-> response, task |-> task,
                       valid |-> validate(response, task)]
        /\ UNCHANGED <<impl, config, routing, costTracking, today, calls,
                       cancelled, ollamaCall, analysis, probes, claudeCall,
                   runtimeVars>>

(***************************************************************************)
(* Direct callers of recordCost: each call is issued with its arguments    *)
(* and runs, as one synchronous statement, in any order.                   *)
(***************************************************************************)
Models == {"ollama", "claude"}

\* (tokensInput, tokensOutput, cost) of a call.
Usages == {<<4, 2, 0>>, <<6, 1, 33>>}

IdleCall == [pc |-> "idle", model |-> "", tokensInput |-> 0,
             tokensOutput |-> 0, cost |-> 0, date |-> 0]

\* Callers are numbered in the order their calls are issued.
Call(c, model, usage) ==
    /\ calls[c].pc = "idle"
    /\ \A q \in Callers : q < c => calls[q].pc # "idle"
    /\ calls' = [calls EXCEPT ![c] =
          [pc |-> "pending", model |-> model, tokensInput |-> usage[1],
           tokensOutput |-> usage[2], cost |-> usage[3], date |-> 0]]
    /\ UNCHANGED <<impl, config, routing, costTracking, today, cancelled, unitVars,
                   runtimeVars>>

RecordCost(c) ==
    /\ calls[c].pc = "pending"
    /\ costTracking' = recordCost(costTracking, today, calls[c].model,
                                  calls[c].tokensInput, calls[c].tokensOutput,
                                  calls[c].cost)
    /\ calls' = [calls EXCEPT ![c].pc = "done", ![c].date = today]
    /\ UNCHANGED <<impl, config, routing, today, cancelled, unitVars,
                   runtimeVars>>

\* The wall clock reaches the next day.
Tick ==
    /\ today < MaxDay
    /\ today' = today + 1
    /\ UNCHANGED <<impl, config, routing, costTracking, calls, cancelled, unitVars,
                   runtimeVars>>

(***************************************************************************)
(* WorkflowEngine: executeWorkflow and executeStep on one execution,       *)
(* followed through its awaits on a tool and on the router, with the rows  *)
(* StateManager keeps of it in tables executions and step_executions.      *)
(***************************************************************************)
MaxSteps == 3

\* An optional number that is not set, and a NULL number column.
Undefined == 0 - 1

Step(id, type, tool, outputSchema, condition) ==
    [id |-> id, type |-> type, tool |-> tool, outputSchema |-> outputSchema,
     condition |-> condition]

\* The tools toolRegistry.get finds.
ToolRegistry == {"github.listPRs", "slack.post"}

\* `Tool not found: ${step.tool}`
ToolNotFound(tool) ==
    CASE tool = "jira.create" -> "Tool not found: jira.create"
      [] OTHER -> "Tool not found: "

WorkflowSteps ==
    { Step("check", "tool", "github.listPRs", FALSE, ""),
      Step("notify", "tool", "slack.post", FALSE, "{{step.check.is_valid}}"),
      Step("file", "tool", "jira.create", FALSE, ""),
      Step("review", "agent", "", TRUE, "{{step.check.is_valid}}"),
      Step("plan", "agent", "", FALSE, "") }

\* Workflows of up to MaxSteps steps with distinct ids.
Workflows ==
    { w \in UNION {[1..n -> WorkflowSteps] : n \in 0..MaxSteps} :
        \A i, j \in DOMAIN w : i # j => w[i].id # w[j].id }

ToolOutputs == {[is_valid |-> TRUE], [is_valid |-> FALSE]}
ToolErrors == {"rate limited"}

\* What intelligenceRouter.execute resolves with, or rejects with.
RouterResponses ==
    {ClaudeResponse(message) : message \in ClaudeMessages}
    \cup {OllamaResponse(data) :
            data \in {d \in OllamaReplies : JSONParse(d.response.tokens).ok}}

RouterErrors == {err.message : err \in ClaudeErrors}

\* The message of the SyntaxError JSON.parse throws.
SyntaxError == "Unexpected token"

NoOutput == [kind |-> "undefined"]

NoStepExec ==
    [stepId |-> "", status |-> "", completedAt |-> FALSE, modelUsed |-> "",
     tokensInput |-> Undefined, tokensOutput |-> Undefined, cost |-> Undefined,
     output |-> NoOutput, error |-> ""]

\* The StepExecution executeStep starts with.
NewStepExec(step) == [NoStepExec EXCEPT !.stepId = step.id, !.status = "running"]

NoExecution ==
    [status |-> "", completedAt |-> FALSE, cost |-> 0, error |-> "", steps |-> <<>>]

NoRow == [status |-> "", completed_at |-> FALSE, cost |-> 0, error |-> ""]

\* An update that names no field.
NoUpdates == [status |-> "", completedAt |-> FALSE, cost |-> Undefined, error |-> ""]

\* INSERT INTO executions (id, workflow_id, status, started_at, ...): cost
\* takes the column's DEFAULT 0.
createExecution(execution) ==
    [status |-> execution.status, completed_at |-> FALSE, cost |-> 0, error |-> ""]

\* updateExecution that leaves the status column alone.
updateExecutionKeepsStatus(row, updates) ==
    [row EXCEPT
        !.completed_at = IF updates.completedAt THEN TRUE ELSE @,
        !.cost = IF updates.cost # Undefined THEN updates.cost ELSE @,
        !.error = IF updates.error # "" THEN updates.error ELSE @]

\* UPDATE executions SET ...: a field is written when the update carries it
\* (status, completedAt and error when truthy, cost when not undefined).
updateExecution(row, updates) ==
    [row EXCEPT
        !.status = IF updates.status # "" THEN updates.status ELSE @,
        !.completed_at = IF updates.completedAt THEN TRUE ELSE @,
        !.cost = IF updates.cost # Undefined THEN updates.cost ELSE @,
        !.error = IF updates.error # "" THEN updates.error ELSE @]

\* INSERT INTO step_executions (id, execution_id, step_id, status, ...).
createStepExecution(table, step) ==
    Append(table,
           [step_id |-> step.stepId, status |-> step.status,
            completed_at |-> FALSE, model_used |-> "",
            tokens_input |-> Undefined, tokens_output |-> Undefined,
            cost |-> 0, error |-> ""])

\* UPDATE step_executions SET ... WHERE id = ?; the row's id is its index.
updateStepExecution(table, id, updates) ==
    [table EXCEPT ![id] =
        [@ EXCEPT
            !.status = IF updates.status # "" THEN updates.status ELSE @,
            !.completed_at = IF updates.completedAt THEN TRUE ELSE @,
            !.model_used = IF updates.modelUsed # "" THEN updates.modelUsed ELSE @,
            !.tokens_input =
                IF updates.tokensInput # Undefined THEN updates.tokensInput ELSE @,
            !.tokens_output =
                IF updates.tokensOutput # Undefined THEN updates.tokensOutput ELSE @,
            !.cost = IF updates.cost # Undefined THEN updates.cost ELSE @,
            !.error = IF updates.error # "" THEN updates.error ELSE @]]

\* ExecutionContext.setStepOutput
setStepOutput(stepOutputs, stepId, output) ==
    [id \in DOMAIN stepOutputs \cup {stepId} |->
        IF id = stepId THEN output ELSE stepOutputs[id]]

\* interpolateString: {{step.check.is_valid}} becomes String(value) of the
\* path in the context, '' when the path leads to undefined; a template
\* without placeholders is returned as it is.
interpolateString(template, stepOutputs) ==
    IF template = "{{step.check.is_valid}}"
    THEN IF "check" \in DOMAIN stepOutputs
            /\ "is_valid" \in DOMAIN stepOutputs["check"]
         THEN IF stepOutputs["check"].is_valid THEN "true" ELSE "false"
         ELSE ""
    ELSE template

\* evaluateCondition that runs the step on every non-empty value.
evaluateConditionNonEmpty(condition, stepOutputs) ==
    interpolateString(condition, stepOutputs) # ""

\* value === 'true' || value === true
evaluateCondition(condition, stepOutputs) ==
    interpolateString(condition, stepOutputs) = "true"

NoStepOutputs == [id \in {} |-> NoOutput]

IdleEngine ==
    [pc |-> "idle", workflow |-> <<>>, i |-> 0, execution |-> NoExecution,
     row |-> NoRow, stepExec |-> NoStepExec, stepExecutions |-> <<>>,
     stepOutputs |-> NoStepOutputs, invoked |-> <<>>, thrown |-> ""]

\* executeWorkflow after its loop: the status is settled and persisted, and
\* the execution is returned.
Finish(e) ==
    LET ex == [e.execution EXCEPT
                  !.status = IF @ = "running" THEN "success" ELSE @,
                  !.completedAt = TRUE]
    IN  [e EXCEPT
            !.pc = "returned",
            !.execution = ex,
            !.row = updateExecution(@,
                        [status |-> ex.status, completedAt |-> ex.completedAt,
                         cost |-> ex.cost, error |-> ex.error])]

\* executeWorkflow's loop once executeStep has returned stepExec.
Continue(e, stepExec) ==
    LET failed == stepExec.status = "failed"
        ex == [e.execution EXCEPT
                  !.steps = Append(@, stepExec),
                  !.status = IF failed THEN "failed" ELSE @,
                  !.error = IF failed THEN stepExec.error ELSE @,
                  !.cost = IF failed \/ stepExec.cost = Undefined
                           THEN @ ELSE @ + stepExec.cost]
        pushed == [e EXCEPT !.execution = ex, !.stepExec = NoStepExec]
    IN  IF ~failed /\ e.i < Len(e.workflow)
        THEN [pushed EXCEPT !.pc = "step", !.i = @ + 1]
        ELSE Finish(pushed)

\* A catch that goes on with the next step.
CatchResumes(e, message) ==
    IF e.i < Len(e.workflow)
    THEN [e EXCEPT !.pc = "step", !.i = @ + 1, !.stepExec = NoStepExec]
    ELSE Finish([e EXCEPT !.execution.status = "failed",
                          !.execution.error = message,
                          !.stepExec = NoStepExec])

\* executeWorkflow's catch: the execution is marked failed, persisted, and
\* the error is thrown on.
Catch(e, message) ==
    LET ex == [e.execution EXCEPT
                  !.status = "failed", !.error = message, !.completedAt = TRUE]
    IN  [e EXCEPT
            !.pc = "threw",
            !.thrown = message,
            !.stepExec = NoStepExec,
            !.execution = ex,
            !.row = updateExecution(@,
                        [NoUpdates EXCEPT !.status = "failed",
                                          !.completedAt = ex.completedAt,
                                          !.error = message])]

\* executeStep returns a skipped step.
StepSkipped(e) ==
    LET stepExec == [e.stepExec EXCEPT !.status = "skipped", !.completedAt = TRUE]
    IN  Continue([e EXCEPT !.stepExecutions =
                      updateStepExecution(@, Len(@), stepExec)],
                 stepExec)

\* executeStep returns a step that ran: result holds what the branch assigned.
StepSucceeded(e, result) ==
    LET stepExec == [e.stepExec EXCEPT
                        !.output = result.output,
                        !.modelUsed = result.modelUsed,
                        !.tokensInput = result.tokensInput,
                        !.tokensOutput = result.tokensOutput,
                        !.cost = result.cost,
                        !.status = "success",
                        !.completedAt = TRUE]
    IN  Continue([e EXCEPT
                     !.stepOutputs = setStepOutput(@, stepExec.stepId, stepExec.output),
                     !.stepExecutions = updateStepExecution(@, Len(@), stepExec)],
                 stepExec)

\* executeStep's catch, and through the rethrow executeWorkflow's.
StepFailed(e, message) ==
    LET stepExec == [e.stepExec EXCEPT
                        !.status = "failed", !.error = message,
                        !.completedAt = TRUE]
    IN  Catch([e EXCEPT !.stepExecutions =
                   updateStepExecution(@, Len(@), stepExec)],
              message)

\* The step awaits callee.
Await(e, callee) ==
    [e EXCEPT !.pc = callee,
              !.invoked = Append(@, [stepId |-> e.stepExec.stepId,
                                     callee |-> callee,
                                     outcome |-> "pending",
                                     result |-> NoResponse])]

\* The awaited call settles: it returned (a router call, with result) or threw.
SettleCall(e, outcome, result) ==
    [e EXCEPT !.invoked[Len(e.invoked)] =
        [@ EXCEPT !.outcome = outcome, !.result = result]]

ExecuteWorkflow(workflow) ==
    /\ engine.pc = "idle"
    /\ LET ex == [NoExecution EXCEPT !.status = "running"]
           created == [engine EXCEPT !.workflow = workflow,
                                     !.execution = ex,
                                     !.row = createExecution(ex)]
       IN  engine' = IF Len(workflow) = 0 THEN Finish(created)
                     ELSE [created EXCEPT !.pc = "step", !.i = 1]
    /\ UNCHANGED <<impl, config, routing, costTracking, today, calls, cancelled,
                   unitVars, scheduler, compiler, parsing>>

\* executeStep up to its first await, or to its end when it has none.
ExecuteStep ==
    /\ engine.pc = "step"
    /\ LET step == engine.workflow[engine.i]
           stepExec == NewStepExec(step)
           created == [engine EXCEPT
                          !.stepExec = stepExec,
                          !.stepExecutions = createStepExecution(@, stepExec)]
       IN  engine' =
             IF step.condition # ""
                /\ ~evaluateCondition(step.condition, engine.stepOutputs)
             THEN StepSkipped(created)
             ELSE IF step.type = "tool"
             THEN IF step.tool \in ToolRegistry
                  THEN Await(created, "tool.execute")
                  ELSE StepFailed(created, ToolNotFound(step.tool))
             ELSE Await(created, "router.execute")
    /\ UNCHANGED <<impl, config, routing, costTracking, today, calls, cancelled,
                   unitVars, scheduler, compiler, parsing>>

ToolReturns(output) ==
    /\ engine.pc = "tool.execute"
    /\ engine' = StepSucceeded(SettleCall(engine, "returned", NoResponse),
                    [output |-> output, modelUsed |-> "",
                     tokensInput |-> Undefined, tokensOutput |-> Undefined,
                     cost |-> Undefined])
    /\ UNCHANGED <<impl, config, routing, costTracking, today, calls, cancelled,
                   unitVars, scheduler, compiler, parsing>>

ToolThrows(message) ==
    /\ engine.pc = "tool.execute"
    /\ engine' = StepFailed(SettleCall(engine, "threw", NoResponse), message)
    /\ UNCHANGED <<impl, config, routing, costTracking, today, calls, cancelled,
                   unitVars, scheduler, compiler, parsing>>

\* executeAgentStep after the router's Response: JSON.parse(result.content)
\* is applied whether or not the step has an outputSchema.
RouterReturns(result) ==
    /\ engine.pc = "router.execute"
    /\ LET output == JSONParse(result.content.tokens)
           settled == SettleCall(engine, "returned", result)
       IN  engine' =
             IF output.ok
             THEN StepSucceeded(settled,
                     [output |-> output, modelUsed |-> result.modelUsed,
                      tokensInput |-> result.tokensInput,
                      tokensOutput |-> result.tokensOutput,
                      cost |-> result.cost])
             ELSE StepFailed(settled, SyntaxError)
    /\ UNCHANGED <<impl, config, routing, costTracking, today, calls, cancelled,
                   unitVars, scheduler, compiler, parsing>>

RouterThrows(message) ==
    /\ engine.pc = "router.execute"
    /\ engine' = StepFailed(SettleCall(engine, "threw", NoResponse), message)
    /\ UNCHANGED <<impl, config, routing, costTracking, today, calls, cancelled,
                   unitVars, scheduler, compiler, parsing>>

(***************************************************************************)
(* WorkflowLoader and Scheduler.  The workflow directory holds one file    *)
(* per workflow id (save writes `${workflow.id}.json`); a cron job is the  *)
(* workflow object its callback closes over; `scheduled` are the tasks     *)
(* node-cron still fires, whether or not the scheduler still knows them.   *)
(***************************************************************************)
MaxWatchers == 2
MaxPending == 2

WorkflowIds == {"daily-summary", "6fa1c2"}

\* readdirSync order.
FileOrder == <<"6fa1c2", "daily-summary">>

Trigger(type, schedule) == [type |-> type, schedule |-> schedule]

Triggers ==
    { Trigger("cron", "0 9 * * *"), Trigger("cron", "every morning"),
      Trigger("webhook", ""), Trigger("manual", "") }

\* cron.validate
cronValidate(schedule) == schedule = "0 9 * * *"

Workflow(id, enabled, trigger) == [id |-> id, enabled |-> enabled, trigger |-> trigger]

NoWorkflow == Workflow("", FALSE, Trigger("", ""))

\* A file of the directory: absent, not JSON, or a workflow.
NoFile == [kind |-> "none", workflow |-> NoWorkflow]
Garbage == [kind |-> "garbage", workflow |-> NoWorkflow]
FileOf(workflow) == [kind |-> "workflow", workflow |-> workflow]

\* What a user may leave in the file of a workflow id.
FileContents(id) ==
    {NoFile, Garbage, FileOf(Workflow(id, FALSE, Trigger("cron", "0 9 * * *")))}
    \cup {FileOf(Workflow(id, TRUE, trigger)) : trigger \in Triggers}

\* WorkflowLoader.loadAll: the files that parse, in directory order.
RECURSIVE loadFrom(_, _)
loadFrom(files, k) ==
    IF k > Len(FileOrder) THEN <<>>
    ELSE LET file == files[FileOrder[k]]
         IN  (IF file.kind = "workflow" THEN <<file.workflow>> ELSE <<>>)
             \o loadFrom(files, k + 1)

loadAll(files) == loadFrom(files, 1)

IdleScheduler ==
    [running |-> FALSE,
     files |-> [id \in WorkflowIds |-> NoFile],
     cronJobs |-> [id \in {} |-> NoWorkflow],
     scheduled |-> EmptyBag,
     fired |-> EmptyBag,
     watchers |-> 0,
     pending |-> 0]

\* The loop over cronJobs that forgets the jobs without stopping them.
StopJobsForgets(s) ==
    [s EXCEPT !.cronJobs = [id \in {} |-> NoWorkflow]]

\* for (const [id, job] of this.cronJobs) job.stop(); this.cronJobs.clear()
StopJobs(s) ==
    [s EXCEPT
        !.scheduled = @ (-) SetToBag({s.cronJobs[id] : id \in DOMAIN s.cronJobs}),
        !.cronJobs = [id \in {} |-> NoWorkflow]]

registerCronJob(s, workflow) ==
    IF workflow.trigger.type # "cron" THEN s
    ELSE IF ~cronValidate(workflow.trigger.schedule) THEN s
    ELSE [s EXCEPT
            !.scheduled = @ (+) SetToBag({workflow}),
            !.cronJobs = [id \in DOMAIN @ \cup {workflow.id} |->
                             IF id = workflow.id THEN workflow ELSE @[id]]]

\* The registering loop of reload over workflows[k..].
RECURSIVE registerFrom(_, _, _)
registerFrom(s, workflows, k) ==
    IF k > Len(workflows) THEN s
    ELSE LET workflow == workflows[k]
         IN  registerFrom(
                 IF ~workflow.enabled THEN s
                 ELSE IF workflow.trigger.type = "cron"
                      THEN registerCronJob(s, workflow)
                      ELSE s,
                 workflows, k + 1)

reload(s) == registerFrom(StopJobs(s), loadAll(s.files), 1)

\* Scheduler.start: reload, then loader.watch registers one more listener.
start(s) ==
    IF s.running THEN s
    ELSE [reload([s EXCEPT !.running = TRUE]) EXCEPT !.watchers = @ + 1]

\* Scheduler.stop: the listeners of loader.watch stay registered.
stop(s) ==
    IF ~s.running THEN s
    ELSE StopJobs([s EXCEPT !.running = FALSE])

\* A write to the directory: every registered listener is notified.
writeFile(s, id, file) ==
    [s EXCEPT !.files[id] = file, !.pending = @ + s.watchers]

Start ==
    /\ ~scheduler.running => scheduler.watchers < MaxWatchers
    /\ scheduler' = start(scheduler)
    /\ UNCHANGED <<impl, config, routing, costTracking, today, calls, cancelled,
                   unitVars, engine, compiler, parsing>>

Stop ==
    /\ scheduler' = stop(scheduler)
    /\ UNCHANGED <<impl, config, routing, costTracking, today, calls, cancelled,
                   unitVars, engine, compiler, parsing>>

\* The user saves, edits or deletes a workflow file.
WriteFile(id, file) ==
    /\ scheduler.pending + scheduler.watchers <= MaxPending
    /\ file # scheduler.files[id]
    /\ scheduler' = writeFile(scheduler, id, file)
    /\ UNCHANGED <<impl, config, routing, costTracking, today, calls, cancelled,
                   unitVars, engine, compiler, parsing>>

\* One listener of fs.watch runs: loader.loadAll(), then the scheduler's
\* callback, which reloads.
WatchFires ==
    /\ scheduler.pending > 0
    /\ scheduler' = reload([scheduler EXCEPT !.pending = @ - 1])
    /\ UNCHANGED <<impl, config, routing, costTracking, today, calls, cancelled,
                   unitVars, engine, compiler, parsing>>

\* A schedule tick: node-cron runs the callback of every task not stopped,
\* and each callback calls engine.executeWorkflow(workflow, ...).
CronTick ==
    /\ scheduler' = [scheduler EXCEPT !.fired = scheduler.scheduled]
    /\ UNCHANGED <<impl, config, routing, costTracking, today, calls, cancelled,
                   unitVars, engine, compiler, parsing>>

(***************************************************************************)
(* WorkflowGenerator.compileFromChat and the routes that store its result. *)
(***************************************************************************)
\* What randomUUID returns.
NewId == "6fa1c2"

\* The objects JSON.parse makes of the model's answers; id "" is no id.
ModelOutputs ==
    { Workflow(id, enabled, Trigger("cron", "0 9 * * *")) :
        id \in {"", "daily-summary"}, enabled \in BOOLEAN }

\* parsed is what JSON.parse made of the answer, result what compileFromChat
\* returned, drafts the ids stored from it that nobody has activated since.
IdleCompiler ==
    [pc |-> "idle", parsed |-> NoWorkflow, result |-> NoWorkflow, drafts |-> {}]

\* compileFromChat that keeps the `enabled` of the model's answer.
compileFromChatKeepsEnabled(parsed) ==
    [parsed EXCEPT !.id = IF @ = "" THEN NewId ELSE @]

\* workflow.id = workflow.id || randomUUID(); workflow.enabled = false
compileFromChat(parsed) ==
    [parsed EXCEPT !.id = IF @ = "" THEN NewId ELSE @, !.enabled = FALSE]

CompileFromChat ==
    /\ compiler.pc = "idle"
    /\ compiler' = [compiler EXCEPT !.pc = "claude.execute",
                                    !.parsed = NoWorkflow, !.result = NoWorkflow]
    /\ UNCHANGED <<impl, config, routing, costTracking, today, calls, cancelled,
                   unitVars, engine, scheduler, parsing>>

\* claude.execute resolves with content that parses.
CompileReturns(parsed) ==
    /\ compiler.pc = "claude.execute"
    /\ compiler' = [compiler EXCEPT !.pc = "returned",
                                    !.parsed = parsed,
                                    !.result = compileFromChat(parsed)]
    /\ UNCHANGED <<impl, config, routing, costTracking, today, calls, cancelled,
                   unitVars, engine, scheduler, parsing>>

\* claude.execute rejects, or JSON.parse(response.content) throws.
CompileThrows ==
    /\ compiler.pc = "claude.execute"
    /\ compiler' = [compiler EXCEPT !.pc = "idle"]
    /\ UNCHANGED <<impl, config, routing, costTracking, today, calls, cancelled,
                   unitVars, engine, scheduler, parsing>>

\* The chat client posts the compiled workflow: POST /api/workflows saves it.
SaveCompiled ==
    /\ compiler.pc = "returned"
    /\ scheduler.pending + scheduler.watchers <= MaxPending
    /\ scheduler' = writeFile(scheduler, compiler.result.id, FileOf(compiler.result))
    /\ compiler' = [compiler EXCEPT !.pc = "idle",
                                    !.drafts = @ \cup {compiler.result.id}]
    /\ UNCHANGED <<impl, config, routing, costTracking, today, calls, cancelled,
                   unitVars, engine, parsing>>

\* The user activates a stored draft.
Activate(id) ==
    /\ id \in compiler.drafts
    /\ scheduler.pending + scheduler.watchers <= MaxPending
    /\ scheduler' = writeFile(scheduler, id,
                        FileOf([scheduler.files[id].workflow EXCEPT !.enabled = TRUE]))
    /\ compiler' = [compiler EXCEPT !.drafts = @ \ {id}]
    /\ UNCHANGED <<impl, config, routing, costTracking, today, calls, cancelled,
                   unitVars, engine, parsing>>

(***************************************************************************)
(* safeJsonParse.                                                          *)
(***************************************************************************)
\* The fallbacks callers pass.
Fallbacks ==
    { [ok |-> TRUE, kind |-> "null", keys |-> {}],
      [ok |-> TRUE, kind |-> "object", keys |-> {}],
      [ok |-> TRUE, kind |-> "array", keys |-> {}],
      [ok |-> TRUE, kind |-> "object", keys |-> {"name"}],
      [ok |-> TRUE, kind |-> "primitive", keys |-> {}],
      [ok |-> TRUE, kind |-> "array", keys |-> {"0"}] }

NoParsing ==
    [pc |-> "idle", value |-> NoText,
     fallback |-> [ok |-> TRUE, kind |-> "null", keys |-> {}],
     threw |-> FALSE,
     result |-> [ok |-> TRUE, kind |-> "null", keys |-> {}]]

\* safeJsonParse without its try.
safeJsonParseUncaught(value, fallback) ==
    LET parsed == JSONParse(value.tokens)
    IN  [threw |-> ~parsed.ok, result |-> parsed]

\* try { return JSON.parse(value) } catch { return fallback }
safeJsonParse(value, fallback) ==
    LET parsed == JSONParse(value.tokens)
    IN  [threw |-> FALSE, result |-> IF parsed.ok THEN parsed ELSE fallback]

SafeJsonParse(value, fallback) ==
    /\ parsing.pc = "idle"
    /\ LET returned == safeJsonParse(value, fallback)
       IN  parsing' = [pc |-> "done", value |-> value, fallback |-> fallback,
                       threw |-> returned.threw, result |-> returned.result]
    /\ UNCHANGED <<impl, config, routing, costTracking, today, calls, cancelled,
                   unitVars, engine, scheduler, compiler>>

(***************************************************************************)
(* Specifications.                                                         *)
(***************************************************************************)
Init ==
    /\ impl \in {"plan", "flow"}
    /\ config \in [ollamaFallback : BOOLEAN]
    /\ routing = [r \in Routings |-> IdleRouting]
    /\ costTracking = <<>>
    /\ today = 0
    /\ calls = [c \in Callers |-> IdleCall]
    /\ cancelled = [r \in Routings |-> 0]
    /\ ollamaCall = IdleOllamaCall
    /\ analysis = NoAnalysis
    /\ verdict = NoVerdict
    /\ probes = [p \in Probes |-> IdleProbe]
    /\ claudeCall = IdleClaudeCall
    /\ engine = IdleEngine
    /\ scheduler = IdleScheduler
    /\ compiler = IdleCompiler
    /\ parsing = NoParsing

Next ==
    \/ \E r \in Routings, task \in RouterTasks : PlanExecute(r, task)
    \/ \E r \in Routings, available \in BOOLEAN : PlanIsAvailable(r, available)
    \/ \E r \in Routings, data \in OllamaReplies : PlanOllamaReturns(r, data)
    \/ \E r \in Routings, cause \in OllamaFailures : PlanOllamaThrows(r, cause)
    \/ \E r \in Routings, message \in ClaudeMessages : PlanClaudeReturns(r, message)
    \/ \E r \in Routings, err \in ClaudeErrors : PlanClaudeThrows(r, err)
    \/ \E r \in Routings, task \in RouterTasks : FlowExecute(r, task)
    \/ \E r \in Routings, available \in BOOLEAN : FlowIsAvailable(r, available)
    \/ \E r \in Routings, data \in OllamaReplies : FlowOllamaReturns(r, data)
    \/ \E r \in Routings, cause \in OllamaFailures : FlowOllamaThrows(r, cause)
    \/ \E r \in Routings, message \in ClaudeMessages : FlowClaudeReturns(r, message)
    \/ \E r \in Routings, err \in ClaudeErrors : FlowClaudeThrows(r, err)

Spec == Init /\ [][Next]_vars

InitLedger ==
    /\ impl = "flow"
    /\ config = [ollamaFallback |-> TRUE]
    /\ routing = [r \in Routings |-> IdleRouting]
    /\ costTracking = <<>>
    /\ today = 0
    /\ calls = [c \in Callers |-> IdleCall]
    /\ cancelled = [r \in Routings |-> 0]
    /\ ollamaCall = IdleOllamaCall
    /\ analysis = NoAnalysis
    /\ verdict = NoVerdict
    /\ probes = [p \in Probes |-> IdleProbe]
    /\ claudeCall = IdleClaudeCall
    /\ engine = IdleEngine
    /\ scheduler = IdleScheduler
    /\ compiler = IdleCompiler
    /\ parsing = NoParsing

NextLedger ==
    \/ \E c \in Callers, model \in Models, usage \in Usages : Call(c, model, usage)
    \/ \E c \in Callers : RecordCost(c)
    \/ Tick

SpecLedger == InitLedger /\ [][NextLedger]_vars

\* One configuration, for the components exercised on their own.
InitUnit ==
    /\ Init
    /\ impl = "plan"
    /\ config.ollamaFallback

NextOllama ==
    \/ \E timeout \in Timeouts : OllamaExecute(timeout)
    \/ \E ok \in BOOLEAN : FetchResolves(ok)
    \/ FetchRejects
    \/ TimerFires
    \/ \E data \in OllamaReplies : JsonResolves(data)
    \/ JsonRejects
    \/ TimePasses

SpecOllama == InitUnit /\ [][NextOllama]_vars

NextAnalyzer == \E task \in AnalyzerTasks : Analyze(task)

SpecAnalyzer == InitUnit /\ [][NextAnalyzer]_vars

NextValidator ==
    \E content \in ValidatorContents, task \in ValidatorTasks : Validate(content, task)

SpecValidator == InitUnit /\ [][NextValidator]_vars

NextProbes ==
    \/ \E p \in Probes, backend \in Models : IsAvailable(p, backend)
    \/ \E p \in Probes, ok \in BOOLEAN : OllamaTagsResolves(p, ok)
    \/ \E p \in Probes, err \in ProbeErrors : OllamaTagsRejects(p, err)
    \/ \E p \in Probes : ClaudeCreateResolves(p)
    \/ \E p \in Probes, err \in ProbeErrors : ClaudeCreateRejects(p, err)

SpecProbes == InitUnit /\ [][NextProbes]_vars

NextClaude ==
    \E model \in ClaudeModels, message \in ClaudeUsages : ClaudeExecute(model, message)

SpecClaude == InitUnit /\ [][NextClaude]_vars

\* Routings whose caller may give them up.
NextCancel ==
    \/ Next
    \/ \E r \in Routings : Cancel(r)

SpecCancel == Init /\ [][NextCancel]_vars

\* The remote backend settles the claude.execute call routing r awaits:
\* messages.create resolves or rejects.
ClaudeAnswers(r) ==
    \/ \E message \in ClaudeMessages : PlanClaudeReturns(r, message)
    \/ \E err \in ClaudeErrors : PlanClaudeThrows(r, err)
    \/ \E message \in ClaudeMessages : FlowClaudeReturns(r, message)
    \/ \E err \in ClaudeErrors : FlowClaudeThrows(r, err)

\* ollama.execute settles for routing r: it returns, or its catch rethrows
\* (the timer aborts a fetch still in flight after options.timeout || 5000).
OllamaExecuteSettles(r) ==
    \/ \E data \in OllamaReplies : PlanOllamaReturns(r, data)
    \/ \E cause \in OllamaFailures : PlanOllamaThrows(r, cause)
    \/ \E data \in OllamaReplies : FlowOllamaReturns(r, data)
    \/ \E cause \in OllamaFailures : FlowOllamaThrows(r, cause)

\* The router under a remote backend that settles every call made to it and
\* a local execute that settles.  Nothing is assumed of isAvailable: it
\* awaits fetch(/api/tags) with no signal and no timer.
SpecLive ==
    /\ Init
    /\ [][Next]_vars
    /\ \A r \in Routings : WF_vars(ClaudeAnswers(r))
    /\ \A r \in Routings : WF_vars(OllamaExecuteSettles(r))

NextEngine ==
    \/ \E workflow \in Workflows : ExecuteWorkflow(workflow)
    \/ ExecuteStep
    \/ \E output \in ToolOutputs : ToolReturns(output)
    \/ \E message \in ToolErrors : ToolThrows(message)
    \/ \E result \in RouterResponses : RouterReturns(result)
    \/ \E message \in RouterErrors : RouterThrows(message)

SpecEngine == InitUnit /\ [][NextEngine]_vars

NextScheduler ==
    \/ Start
    \/ Stop
    \/ \E id \in WorkflowIds : \E file \in FileContents(id) : WriteFile(id, file)
    \/ WatchFires
    \/ CronTick

SpecScheduler == InitUnit /\ [][NextScheduler]_vars

NextCompiler ==
    \/ Start
    \/ CompileFromChat
    \/ \E parsed \in ModelOutputs : CompileReturns(parsed)
    \/ CompileThrows
    \/ SaveCompiled
    \/ \E id \in WorkflowIds : Activate(id)
    \/ WatchFires
    \/ CronTick

SpecCompiler == InitUnit /\ [][NextCompiler]_vars

NextParse ==
    \E value \in ValidatorContents, fallback \in Fallbacks :
        SafeJsonParse(value, fallback)

SpecParse == InitUnit /\ [][NextParse]_vars

(***************************************************************************)
(* Observations on a routing.                                              *)
(***************************************************************************)
ScoreOf(r) == analyze(routing[r].task).score

Started(r) == routing[r].pc # "idle"
Finished(r) == routing[r].pc = "done"

OpsOf(r, op) == {i \in 1..Len(routing[r].ops) : routing[r].ops[i].op = op}

Settled(r, op, outcome) ==
    {i \in OpsOf(r, op) : routing[r].ops[i].outcome = outcome}

ReturnedFrom(r, model) ==
    /\ routing[r].status = "returned"
    /\ routing[r].response.modelUsed = model

(***************************************************************************)
(* C1: with fallback enabled, a task scored 2..6 whose local execute       *)
(* throws and whose remote execute succeeds gets the remote Response:      *)
(* exactly two execute attempts, local then remote, and no error reaches   *)
(* the caller.                                                             *)
(***************************************************************************)
C1_LocalErrorFallsBack ==
    \A r \in Routings :
        ( /\ Finished(r)
          /\ config.ollamaFallback
          /\ ScoreOf(r) >= 2 /\ ScoreOf(r) < 7
          /\ Settled(r, "ollama.execute", "threw") # {}
          /\ Settled(r, "claude.execute", "threw") = {} )
        => /\ ReturnedFrom(r, "claude")
           /\ Cardinality(OpsOf(r, "ollama.execute")) = 1
           /\ Cardinality(OpsOf(r, "claude.execute")) = 1
           /\ \A i \in OpsOf(r, "ollama.execute"), j \in OpsOf(r, "claude.execute") :
                 i < j

(***************************************************************************)
(* C2: a task scored below 2 fails at once with the caller-contract error  *)
(* and no backend operation is ever invoked for it.                        *)
(***************************************************************************)
C2_TrivialRejected ==
    \A r \in Routings :
        (Started(r) /\ ScoreOf(r) < 2)
        => /\ Finished(r)
           /\ routing[r].status = "threw"
           /\ routing[r].error \in {DeterministicPlan, DeterministicFlow}
           /\ routing[r].ops = <<>>
           /\ routing[r].recorded = <<>>

C2_Witness ==
    \E r \in Routings :
        Finished(r) /\ ScoreOf(r) = 1 /\ routing[r].status = "threw"

(***************************************************************************)
(* C3: a task scored 7 or more goes directly to the remote backend:        *)
(* neither probe nor execute of the local backend is called for it.        *)
(***************************************************************************)
C3_RemoteOnlyFromSeven ==
    \A r \in Routings :
        (Started(r) /\ ScoreOf(r) >= 7)
        => /\ OpsOf(r, "ollama.isAvailable") = {}
           /\ OpsOf(r, "ollama.execute") = {}

(***************************************************************************)
(* C4: when the local response of a task scored 2..6 fails validation and  *)
(* the remote backend succeeds, the caller gets the remote Response.       *)
(***************************************************************************)
C4_QualityFailureFallsBack ==
    \A r \in Routings :
        ( /\ Finished(r)
          /\ config.ollamaFallback
          /\ ScoreOf(r) >= 2 /\ ScoreOf(r) < 7
          /\ \E i \in Settled(r, "ollama.execute", "returned") :
                ~validate(routing[r].ops[i].result, routing[r].task)
          /\ Settled(r, "claude.execute", "threw") = {} )
        => ReturnedFrom(r, "claude")

(***************************************************************************)
(* C5: every local Response returned to the caller was validated, and      *)
(* validated true, before it was returned.                                 *)
(***************************************************************************)
C5_LocalResponseValidated ==
    \A r \in Routings :
        ReturnedFrom(r, "ollama")
        => \E i \in 1..Len(routing[r].validations) :
              /\ routing[r].validations[i].response = routing[r].response
              /\ routing[r].validations[i].ok

(***************************************************************************)
(* C6: with fallback enabled, after a local probe that returned false the  *)
(* local execute is never called, the next backend operation is the remote *)
(* execute, and the caller sees no unavailability error.                   *)
(***************************************************************************)
C6_ProbeFalseGoesRemote ==
    \A r \in Routings :
        \A i \in Settled(r, "ollama.isAvailable", "false") :
            config.ollamaFallback =>
            /\ OpsOf(r, "ollama.execute") = {}
            /\ Len(routing[r].ops) > i
            /\ routing[r].ops[i + 1].op = "claude.execute"
            /\ routing[r].error # NotAvailable

(***************************************************************************)
(* C7: a failed remote execute ends the routing with that same error and   *)
(* is the last backend operation of the routing.                           *)
(***************************************************************************)
C7_RemoteErrorIsFinal ==
    \A r \in Routings :
        \A i \in Settled(r, "claude.execute", "threw") :
            /\ i = Len(routing[r].ops)
            /\ Finished(r)
            /\ routing[r].status = "threw"
            /\ routing[r].error = routing[r].ops[i].error

(***************************************************************************)
(* C8: a routing that returns a Response has made exactly one ledger       *)
(* record, carrying that Response, so the ledger's executionCount per      *)
(* backend is the number of Responses returned from that backend.          *)
(***************************************************************************)
ExecutionCount(date, model) ==
    IF KeyRows(costTracking, date, model) = {} THEN 0
    ELSE costTracking[CHOOSE i \in KeyRows(costTracking, date, model) : TRUE].execution_count

C8_EveryResponseRecorded ==
    /\ \A r \in Routings :
          routing[r].status = "returned"
          => routing[r].recorded = <<routing[r].response>>
    /\ \A model \in Models :
          ExecutionCount(today, model)
              = Cardinality({r \in Routings : ReturnedFrom(r, model)})

(***************************************************************************)
(* Observations on the ledger.                                             *)
(***************************************************************************)
DoneCalls(date, model) ==
    {c \in Callers : /\ calls[c].pc = "done"
                     /\ calls[c].date = date
                     /\ calls[c].model = model}

RECURSIVE SumOf(_, _)
SumOf(S, field) ==
    IF S = {} THEN 0
    ELSE LET c == CHOOSE x \in S : TRUE
         IN  calls[c][field] + SumOf(S \ {c}, field)

(***************************************************************************)
(* C9: whatever the order in which concurrent record calls run, the        *)
(* record of a (date, backend) key holds the pointwise sums of the calls   *)
(* made on that key and executionCount is their number.                    *)
(***************************************************************************)
C9_NoLostUpdate ==
    \A date \in Days, model \in Models :
        LET done == DoneCalls(date, model)
            rows == KeyRows(costTracking, date, model)
        IN  IF done = {} THEN rows = {}
            ELSE /\ rows # {}
                 /\ \A i \in rows :
                       /\ costTracking[i].tokens_input = SumOf(done, "tokensInput")
                       /\ costTracking[i].tokens_output = SumOf(done, "tokensOutput")
                       /\ costTracking[i].cost = SumOf(done, "cost")
                       /\ costTracking[i].execution_count = Cardinality(done)

C9_Witness ==
    \E date \in Days, model \in Models :
        /\ DoneCalls(date, model) = Callers
        /\ \E c, d \in Callers : calls[c].cost # calls[d].cost
        /\ \E i \in KeyRows(costTracking, date, model) :
              costTracking[i].execution_count = NumCallers

(***************************************************************************)
(* C10: the ledger holds at most one record per (date, backend); the first *)
(* record call of a key creates it with executionCount 1, every later one  *)
(* adds its deltas and 1 to executionCount, and no field of an existing    *)
(* record is overwritten or decreased.                                     *)
(***************************************************************************)
RecordStep(c) ==
    LET before == KeyRows(costTracking, today, calls[c].model)
        n == Len(costTracking)
    IN  /\ \A i \in 1..n : i \notin before => costTracking'[i] = costTracking[i]
        /\ IF before = {}
           THEN /\ Len(costTracking') = n + 1
                /\ costTracking'[n + 1] =
                      [date |-> today, model |-> calls[c].model,
                       tokens_input |-> calls[c].tokensInput,
                       tokens_output |-> calls[c].tokensOutput,
                       cost |-> calls[c].cost, execution_count |-> 1]
           ELSE /\ Len(costTracking') = n
                /\ \A i \in before :
                      /\ costTracking'[i].tokens_input
                            = costTracking[i].tokens_input + calls[c].tokensInput
                      /\ costTracking'[i].tokens_output
                            = costTracking[i].tokens_output + calls[c].tokensOutput
                      /\ costTracking'[i].cost = costTracking[i].cost + calls[c].cost
                      /\ costTracking'[i].execution_count
                            = costTracking[i].execution_count + 1

LedgerStep ==
    /\ \A date \in Days, model \in Models :
          Cardinality(KeyRows(costTracking', date, model)) <= 1
    /\ Len(costTracking') >= Len(costTracking)
    /\ \A i \in 1..Len(costTracking) :
          /\ costTracking'[i].date = costTracking[i].date
          /\ costTracking'[i].model = costTracking[i].model
          /\ costTracking'[i].tokens_input >= costTracking[i].tokens_input
          /\ costTracking'[i].tokens_output >= costTracking[i].tokens_output
          /\ costTracking'[i].cost >= costTracking[i].cost
          /\ costTracking'[i].execution_count >= costTracking[i].execution_count
    /\ \A c \in Callers :
          (calls[c].pc = "pending" /\ calls'[c].pc = "done") => RecordStep(c)
    /\ (\A c \in Callers : calls'[c].pc = calls[c].pc)
          => costTracking' = costTracking

C10_AdditiveUpsert == [][LedgerStep]_vars

C10_Witness ==
    /\ Len(costTracking) >= 2
    /\ \E i \in 1..Len(costTracking) : costTracking[i].execution_count >= 2

(***************************************************************************)
(* C11: once the caller has cancelled a routing whose local attempt is in  *)
(* flight, that attempt is aborted, the routing invokes no further backend *)
(* operation, and it ends with a cancellation error.                       *)
(***************************************************************************)
C11_CancelStopsRouting ==
    \A r \in Routings :
        cancelled[r] > 0
        => /\ Len(routing[r].ops) = cancelled[r]
           /\ Finished(r)
                 => /\ routing[r].ops[cancelled[r]].outcome = "aborted"
                    /\ routing[r].status = "threw"
                    /\ routing[r].error.name = "AbortError"

(***************************************************************************)
(* C12: a local execute never outlives its deadline: while the call is     *)
(* waiting for the response head or body the deadline has not passed, and  *)
(* when the deadline expires the network operation is aborted and execute  *)
(* fails with the abort as its error.                                      *)
(***************************************************************************)
C12_CompletesByDeadline ==
    /\ ollamaCall.pc \in InFlight => ollamaCall.now <= ollamaCall.deadline
    /\ ollamaCall.timer = "fired"
          => /\ ollamaCall.aborted
             /\ ollamaCall.pc = "threw"
             /\ ollamaCall.error = OllamaError("The operation was aborted")

(***************************************************************************)
(* C13: validate is never called on a Response of the remote backend, and  *)
(* a routing that returns a remote Response returns it as the remote       *)
(* execute resolved it.                                                    *)
(***************************************************************************)
C13_RemoteNeverValidated ==
    \A r \in Routings :
        /\ \A i \in 1..Len(routing[r].validations) :
              routing[r].validations[i].response.modelUsed # "claude"
        /\ ReturnedFrom(r, "claude")
              => /\ routing[r].ops[Len(routing[r].ops)].op = "claude.execute"
                 /\ routing[r].ops[Len(routing[r].ops)].result = routing[r].response

C13_Witness ==
    \E r \in Routings :
        /\ ReturnedFrom(r, "claude")
        /\ Len(routing[r].validations) = 1
        /\ ~routing[r].validations[1].ok

(***************************************************************************)
(* Observations on an analysis.                                            *)
(***************************************************************************)
Analyzed == analysis.pc = "done"

Total == analysis.score.score

\* The base scores of the task kinds as the documentation tabulates them.
BaseScoreOf(kind) ==
    CASE kind = "classification" -> 1
      [] kind = "extraction" -> 2
      [] kind = "planning" -> 4
      [] kind = "error_recovery" -> 5
      [] kind = "workflow_compilation" -> 7
      [] kind = "code_review" -> 8
      [] kind = "security_analysis" -> 9
      [] OTHER -> 3

NeedsReasoning(kind) == kind \in {"planning", "error_recovery"}

\* The analysed task with a context of another length.
WithContext(n) == [analysis.task EXCEPT !.context = ContextOfLength(n)]

TotalAt(n) == analyze(WithContext(n)).score

IsExample ==
    analysis.task =
        Task("planning",
             Text(39, <<"Should", "I", "refactor", "module", "A", "or", "module", "B", "?">>),
             NoText, 0, FALSE, {}, 0, FALSE)

Bare ==
    /\ analysis.task.context = NoText
    /\ ~detectAmbiguity(analysis.task.prompt)
    /\ analysis.task.tools = 0

C16_BareTaskScoresBase ==
    (Analyzed /\ Bare) => Total = BaseScoreOf(analysis.task.type)

(***************************************************************************)
(* C16 amended: a task with no context, no ambiguity marker, no tools and  *)
(* isRetry unset totals the base score of its kind, plus the reasoning     *)
(* bonus of 3 when the kind is planning or error recovery.                 *)
(***************************************************************************)
C16_BareTaskScoresBaseAndReasoning ==
    (Analyzed /\ Bare /\ ~analysis.task.isRetry)
    => Total = BaseScoreOf(analysis.task.type)
               + (IF NeedsReasoning(analysis.task.type) THEN 3 ELSE 0)

C16_Witness ==
    /\ Analyzed /\ Bare /\ ~analysis.task.isRetry
    /\ analysis.task.type = "error_recovery"
    /\ Total = 8

(***************************************************************************)
(* C17: with kind, prompt, tools and isRetry fixed, the total never        *)
(* decreases as the context grows, and it rises by exactly 1 as the length *)
(* passes from 2000 to 2001, from 5000 to 5001 and from 10000 to 10001,    *)
(* and nowhere else.                                                       *)
(***************************************************************************)
C17_ContextMonotone ==
    Analyzed =>
        /\ \A a, b \in ContextLengths : a <= b => TotalAt(a) <= TotalAt(b)
        /\ Total = TotalAt(analysis.task.context.len)
        /\ TotalAt(1) = TotalAt(0)
        /\ TotalAt(2000) = TotalAt(0)
        /\ TotalAt(2001) = TotalAt(2000) + 1
        /\ TotalAt(5000) = TotalAt(2001)
        /\ TotalAt(5001) = TotalAt(5000) + 1
        /\ TotalAt(10000) = TotalAt(5001)
        /\ TotalAt(10001) = TotalAt(10000) + 1
        /\ TotalAt(20000) = TotalAt(10001)

C17_Witness ==
    /\ Analyzed
    /\ analysis.task.context.len = 5001
    /\ analysis.score.factors.contextSize = 2
    /\ Total = TotalAt(5000) + 1

(***************************************************************************)
(* Observations on a verdict.                                              *)
(***************************************************************************)
Judged == verdict.pc = "done"

Parsed == JSONParse(verdict.response.content.tokens)

HasMarker ==
    \E marker \in {"todo", "fixme", "example.com", "placeholder"} :
        Includes(verdict.response.content, marker)

Entities == extractEntities(verdict.response.content)

Unmatched == Entities \ extractEntities(verdict.task.context)

(***************************************************************************)
(* C18: when the task expects JSON and the content does not parse,         *)
(* validate returns false whatever the length, placeholder and entity      *)
(* checks would say.                                                       *)
(***************************************************************************)
C18_UnparseableFails ==
    (Judged /\ verdict.task.expectsJSON /\ ~Parsed.ok) => ~verdict.valid

C18_Witness ==
    /\ Judged /\ verdict.task.expectsJSON /\ ~Parsed.ok
    /\ verdict.task.requiredFields = {}
    /\ verdict.response.content.len >= verdict.task.minLength
    /\ ~HasMarker
    /\ ~detectHallucination(verdict.response, verdict.task)
    /\ ~verdict.valid

(***************************************************************************)
(* C19: when the task expects JSON, the content parses and a required      *)
(* field is not a member of the parsed structure, validate returns false.  *)
(***************************************************************************)
C19_MissingFieldFails ==
    ( /\ Judged
      /\ verdict.task.expectsJSON
      /\ Parsed.ok
      /\ \E field \in verdict.task.requiredFields : field \notin Parsed.keys )
    => ~verdict.valid

(***************************************************************************)
(* C20: with a context and no placeholder marker, the entity check fails   *)
(* the validation exactly when more than half of the distinct entities of  *)
(* the response are absent from the context: at exactly half it passes,    *)
(* and so does a response without entities.                                *)
(***************************************************************************)
C20_EntityThreshold ==
    (Judged /\ verdict.task.context # NoText /\ ~HasMarker)
    => /\ 2 * Cardinality(Unmatched) > Cardinality(Entities) => ~verdict.valid
       /\ ( /\ 2 * Cardinality(Unmatched) <= Cardinality(Entities)
             /\ ~verdict.task.expectsJSON
             /\ verdict.response.content.len >= verdict.task.minLength )
          => verdict.valid

C20_Witness ==
    /\ Judged /\ verdict.task.context # NoText /\ ~HasMarker
    /\ Cardinality(Entities) = 2
    /\ Cardinality(Unmatched) = 1
    /\ verdict.valid

(***************************************************************************)
(* C21: a response whose content contains one of the markers "todo",       *)
(* "fixme", "example.com", "placeholder", in any letter case and anywhere  *)
(* in a word, fails validation whatever the task expects and whether or    *)
(* not it has a context.                                                   *)
(***************************************************************************)
\* The tokens of the model that contain a marker, in some letter case.
MarkedTokens ==
    {"TODO", "todo", "Mastodon", "Fixme", "Placeholder", "https://Example.com/x"}

Marked ==
    \E i \in 1..Len(verdict.response.content.tokens) :
        verdict.response.content.tokens[i] \in MarkedTokens

C21_MarkerFails == (Judged /\ Marked) => ~verdict.valid

C21_Witness ==
    /\ Judged
    /\ verdict.response.content.tokens = <<"Mastodon", "post">>
    /\ verdict.task.context = NoText
    /\ ~verdict.task.expectsJSON
    /\ verdict.task.minLength = 0
    /\ ~verdict.valid

(***************************************************************************)
(* C22: validate returns true exactly when every applicable check passes:  *)
(* the content parses and holds every required field when JSON is          *)
(* expected, the content is not shorter than minLength when one is given,  *)
(* no marker occurs, and with a context at most half of the response's     *)
(* entities are unknown to it.  A response to a task with none of these    *)
(* constraints and no marker validates true.                               *)
(***************************************************************************)
StructureOk ==
    verdict.task.expectsJSON
    => /\ Parsed.ok
       /\ \A field \in verdict.task.requiredFields : field \in Parsed.keys

LengthOk ==
    verdict.task.minLength # 0
    => verdict.response.content.len >= verdict.task.minLength

EntitiesOk ==
    verdict.task.context # NoText
    => 2 * Cardinality(Unmatched) <= Cardinality(Entities)

Unconstrained ==
    /\ ~verdict.task.expectsJSON
    /\ verdict.task.minLength = 0
    /\ verdict.task.context = NoText

C22_ValidIffAllChecksPass ==
    Judged =>
        /\ verdict.valid <=> (StructureOk /\ LengthOk /\ ~Marked /\ EntitiesOk)
        /\ (Unconstrained /\ ~Marked) => verdict.valid

(***************************************************************************)
(* C23: isAvailable of either provider never throws: a request that fails  *)
(* (network error, non-success status, API error) gives the result false.  *)
(***************************************************************************)
C23_ProbeNeverThrows ==
    \A p \in Probes :
        /\ probes[p].outcome # "threw"
        /\ probes[p].pc = "done"
              => /\ probes[p].outcome \in {"true", "false"}
                 /\ probes[p].request # "200 OK" => probes[p].outcome = "false"

C23_Witness ==
    \E p, q \in Probes :
        /\ probes[p].backend = "ollama" /\ probes[q].backend = "claude"
        /\ probes[p].request = "fetch failed" /\ probes[p].outcome = "false"
        /\ probes[q].request = "401 authentication_error"
        /\ probes[q].outcome = "false"

IsRepoExample(r) ==
    routing[r].task =
        Task("extraction",
             Text(52, <<"Extract", "repo", "name", "from", ":",
                        "https://github.com/user/repo">>),
             NoText, 0, FALSE, {}, 0, FALSE)

C24_LocalIsFree ==
    /\ \A r \in Routings :
          /\ \A i \in Settled(r, "ollama.execute", "returned") :
                /\ routing[r].ops[i].result.cost = 0
                /\ routing[r].ops[i].result.modelUsed = "ollama"
          /\ ReturnedFrom(r, "ollama") => routing[r].response.cost = 0
          /\ IsRepoExample(r) =>
                /\ ScoreOf(r) = 2
                /\ ( /\ Finished(r)
                      /\ config.ollamaFallback
                      /\ \E i \in Settled(r, "ollama.execute", "returned") :
                            validate(routing[r].ops[i].result, routing[r].task) )
                   => /\ ReturnedFrom(r, "ollama")
                      /\ routing[r].response.cost = 0
    /\ \A i \in 1..Len(costTracking) :
          costTracking[i].model = "ollama" => costTracking[i].cost = 0

C24_Witness ==
    /\ \E r \in Routings :
          /\ IsRepoExample(r)
          /\ ReturnedFrom(r, "ollama")
          /\ routing[r].response.tokensInput > 0
    /\ \E i \in 1..Len(costTracking) :
          /\ costTracking[i].model = "ollama"
          /\ costTracking[i].tokens_input > 0
          /\ costTracking[i].cost = 0

(***************************************************************************)
(* C26: routings that run concurrently do not affect one another: a step   *)
(* changes one routing only, works on that routing's own task and          *)
(* operation log, leaves the configuration alone, and two routings of the  *)
(* same task whose backend operations settled alike have invoked the same  *)
(* operations and hold the same Response or error, however their steps     *)
(* were interleaved.  Besides its own record a routing changes the ledger  *)
(* only.                                                                   *)
(***************************************************************************)
\* What the caller of a routing can observe of it.
Outcome(r) ==
    [pc |-> routing[r].pc, status |-> routing[r].status,
     response |-> routing[r].response, error |-> routing[r].error.message,
     validations |-> routing[r].validations, recorded |-> routing[r].recorded]

\* The step is one of routing r alone.
OwnStep(r) ==
    /\ \A q \in Routings \ {r} : routing'[q] = routing[q]
    /\ ~Finished(r)
    /\ Started(r) => routing'[r].task = routing[r].task
    /\ Len(routing'[r].ops) \in {Len(routing[r].ops), Len(routing[r].ops) + 1}
    /\ \A i \in 1..Len(routing[r].ops) :
          /\ routing'[r].ops[i].op = routing[r].ops[i].op
          /\ routing[r].ops[i].outcome # "pending"
                => routing'[r].ops[i] = routing[r].ops[i]

RoutingStep ==
    /\ impl' = impl
    /\ config' = config
    /\ today' = today
    /\ \A r \in Routings : routing'[r] # routing[r] => OwnStep(r)
    /\ \A r, q \in Routings :
          (routing'[r].task = routing'[q].task /\ routing'[r].ops = routing'[q].ops)
          => Outcome(r)' = Outcome(q)'

C26_Isolation == [][RoutingStep]_vars

C26_Witness ==
    /\ routing[1].pc = "done" /\ routing[2].pc = "done"
    /\ routing[1].task = routing[2].task
    /\ Len(routing[1].ops) = 3
    /\ routing[1].ops = routing[2].ops
    /\ Len(costTracking) = 1
    /\ costTracking[1].execution_count = 2

(***************************************************************************)
(* C27: on one routing the backend operations follow the state machine:    *)
(* local execute at most once and only right after a local probe that      *)
(* returned true, remote execute at most once and never before the local   *)
(* attempt, validation only of a Response a local execute returned, and    *)
(* nothing pending or invoked once the routing is done.                    *)
(***************************************************************************)
C27_StateMachine ==
    \A r \in Routings :
        LET ops == routing[r].ops
        IN  /\ Cardinality(OpsOf(r, "ollama.execute")) <= 1
            /\ \A i \in OpsOf(r, "ollama.execute") :
                  /\ i > 1
                  /\ ops[i - 1].op = "ollama.isAvailable"
                  /\ ops[i - 1].outcome = "true"
            /\ Cardinality(OpsOf(r, "claude.execute")) <= 1
            /\ \A i \in OpsOf(r, "claude.execute") :
                  \A j \in 1..Len(ops) : ops[j].op # "claude.execute" => j < i
            /\ \A v \in 1..Len(routing[r].validations) :
                  \E i \in Settled(r, "ollama.execute", "returned") :
                      ops[i].result = routing[r].validations[v].response
            /\ Finished(r) => \A i \in 1..Len(ops) : ops[i].outcome # "pending"
            /\ \A i \in 1..Len(ops) : ops[i].outcome = "pending" => i = Len(ops)

(***************************************************************************)
(* C28: with the fallback flag off, a task totalling 2 to 6 is never sent  *)
(* to the local backend: no local probe, no local execute, and the first   *)
(* operation is the remote execute.                                        *)
(***************************************************************************)
C28_FallbackOffSkipsLocal ==
    \A r \in Routings :
        (Started(r) /\ ~config.ollamaFallback /\ ScoreOf(r) >= 2 /\ ScoreOf(r) < 7)
        => /\ OpsOf(r, "ollama.isAvailable") = {}
           /\ OpsOf(r, "ollama.execute") = {}
           /\ Len(routing[r].ops) >= 1 => routing[r].ops[1].op = "claude.execute"
           /\ Finished(r) => Len(routing[r].ops) = 1

(***************************************************************************)
(* C29: every routing that was started eventually finishes, with a         *)
(* Response or an error, provided only that the remote backend settles     *)
(* every call; a local backend that never answers its probe or its execute *)
(* cannot hold the routing forever.                                        *)
(***************************************************************************)
C29_EventuallyDone == \A r \in Routings : Started(r) ~> Finished(r)

(***************************************************************************)
(* C30: the factors analyze returns (taskType, contextSize, ambiguity,     *)
(* reasoning, toolCount) add up to the score it returns, the retry penalty *)
(* included.                                                               *)
(***************************************************************************)
FactorSum ==
    LET f == analysis.score.factors
    IN  f.taskType + f.contextSize + f.ambiguity + f.reasoning + f.toolCount

C30_FactorsSumToTotal == Analyzed => FactorSum = Total

(***************************************************************************)
(* C31: a record call changes only the record keyed (date at the time of   *)
(* the call, backend).  Every record of another backend or another date    *)
(* stays as it was; when the date has rolled over since the last call of   *)
(* the backend, the call creates a new record and the earlier day's record *)
(* is untouched.                                                           *)
(***************************************************************************)
IsKeyed(row, date, model) == row.date = date /\ row.model = model

FrameStep(c) ==
    LET model == calls[c].model
        n == Len(costTracking)
    IN  /\ Len(costTracking') >= n
        /\ \A i \in 1..n :
              /\ costTracking'[i].date = costTracking[i].date
              /\ costTracking'[i].model = costTracking[i].model
              /\ ~IsKeyed(costTracking[i], today, model)
                    => costTracking'[i] = costTracking[i]
        /\ \A i \in (n + 1)..Len(costTracking') :
              IsKeyed(costTracking'[i], today, model)
        /\ (\A i \in 1..n : ~IsKeyed(costTracking[i], today, model))
              => Len(costTracking') = n + 1

LedgerFrame ==
    \A c \in Callers :
        (calls[c].pc = "pending" /\ calls'[c].pc = "done") => FrameStep(c)

C31_OnlyKeyedRecordChanges == [][LedgerFrame]_vars

C31_Witness ==
    \E c, d \in Callers :
        /\ calls[c].pc = "done" /\ calls[d].pc = "done"
        /\ calls[c].model = calls[d].model
        /\ calls[c].date < calls[d].date
        /\ \E i, j \in 1..Len(costTracking) :
              /\ IsKeyed(costTracking[i], calls[c].date, calls[c].model)
              /\ IsKeyed(costTracking[j], calls[d].date, calls[d].model)
              /\ costTracking[i].execution_count = 1
              /\ costTracking[i].cost = calls[c].cost
        /\ \E i \in 1..Len(costTracking) : costTracking[i].model # calls[c].model

(***************************************************************************)
(* Observations on the workflow execution.                                 *)
(***************************************************************************)
Ended == engine.pc \in {"returned", "threw"}

StepRows == engine.stepExecutions

RowsWith(statuses) == {k \in 1..Len(StepRows) : StepRows[k].status \in statuses}

\* Where a step id stands in the workflow.
PlaceOf(stepId) == CHOOSE k \in 1..Len(engine.workflow) : engine.workflow[k].id = stepId

RECURSIVE SumOfCosts(_)
SumOfCosts(rows) ==
    IF rows = {} THEN 0
    ELSE LET k == CHOOSE x \in rows : TRUE
         IN  StepRows[k].cost + SumOfCosts(rows \ {k})

(***************************************************************************)
(* C32: the steps are started in workflow order, one at a time; after the  *)
(* first step that fails no later step is started, and the execution ends  *)
(* failed with that step's error.                                          *)
(***************************************************************************)
C32_InOrderStopAtFailure ==
    /\ Len(StepRows) <= Len(engine.workflow)
    /\ \A k \in 1..Len(StepRows) :
          /\ StepRows[k].step_id = engine.workflow[k].id
          /\ StepRows[k].status = "running" => k = Len(StepRows)
          /\ StepRows[k].status = "failed"
                => /\ k = Len(StepRows)
                   /\ Ended
                   /\ engine.execution.status = "failed"
                   /\ engine.row.status = "failed"
                   /\ engine.execution.error = StepRows[k].error
                   /\ engine.row.error = StepRows[k].error
                   /\ engine.pc = "threw" => engine.thrown = StepRows[k].error
    /\ \A m, n \in 1..Len(engine.invoked) :
          m < n => PlaceOf(engine.invoked[m].stepId) < PlaceOf(engine.invoked[n].stepId)
    /\ \A n \in 1..Len(engine.invoked) :
          engine.invoked[n].outcome = "pending" => n = Len(engine.invoked)
    /\ (Ended /\ RowsWith({"failed"}) = {}) => Len(StepRows) = Len(engine.workflow)

C32_Witness ==
    /\ Ended
    /\ Len(engine.workflow) = 3
    /\ Len(StepRows) = 2
    /\ StepRows[1].status = "success"
    /\ StepRows[2].status = "failed"
    /\ engine.row.error = "rate limited"

(***************************************************************************)
(* C33: when executeWorkflow has returned or thrown, the persisted         *)
(* execution is not running: it is success exactly when every step row is  *)
(* success or skipped and failed otherwise, its completion time is set,    *)
(* and every step row is success, failed or skipped.                       *)
(***************************************************************************)
C33_EndsSettled ==
    Ended
    => /\ engine.row.status \in {"success", "failed"}
       /\ engine.row.status = "success"
             <=> RowsWith({"success", "skipped"}) = 1..Len(StepRows)
       /\ engine.row.completed_at
       /\ RowsWith({"success", "failed", "skipped"}) = 1..Len(StepRows)
       /\ \A k \in 1..Len(StepRows) : StepRows[k].completed_at

C33_Witness ==
    /\ engine.pc = "threw"
    /\ engine.row.status = "failed"
    /\ RowsWith({"skipped"}) # {}
    /\ RowsWith({"success"}) # {}
    /\ RowsWith({"failed"}) # {}

(***************************************************************************)
(* C34: when executeWorkflow has finished, the persisted cost of the       *)
(* execution is the sum of the costs of the steps that completed, also     *)
(* when a later step failed.                                               *)
(***************************************************************************)
C34_CostIsSumOfSteps ==
    Ended => engine.row.cost = SumOfCosts(RowsWith({"success"}))

(***************************************************************************)
(* C35: a step whose condition evaluates to false is skipped: no tool and  *)
(* no router call is made for it, no output of it is stored in the         *)
(* context, no cost is added for it, and the next step is started.         *)
(***************************************************************************)
\* The condition {{step.check.is_valid}} as step k found it: true when an
\* earlier step "check" succeeded with is_valid true.
HoldsAt(k) ==
    \E j \in 1..(k - 1) :
        /\ engine.workflow[j].id = "check"
        /\ engine.execution.steps[j].status = "success"
        /\ engine.execution.steps[j].output = [is_valid |-> TRUE]

Conditional(k) == engine.workflow[k].condition = "{{step.check.is_valid}}"

C35_FalseConditionSkips ==
    \A k \in 1..Len(StepRows) :
        (Conditional(k) /\ ~HoldsAt(k))
        => /\ StepRows[k].status = "skipped"
           /\ StepRows[k].completed_at
           /\ StepRows[k].cost = 0
           /\ engine.execution.steps[k].cost = Undefined
           /\ \A n \in 1..Len(engine.invoked) :
                 engine.invoked[n].stepId # engine.workflow[k].id
           /\ engine.workflow[k].id \notin DOMAIN engine.stepOutputs
           /\ engine.execution.cost = SumOfCosts(RowsWith({"success"}))
           /\ k < Len(engine.workflow)
                 => \/ Len(StepRows) > k
                    \/ engine.pc = "step" /\ engine.i = k + 1

C35_Witness ==
    \E k \in 1..Len(StepRows) :
        /\ Conditional(k)
        /\ \E j \in 1..(k - 1) :
              engine.execution.steps[j].output = [is_valid |-> FALSE]
        /\ StepRows[k].status = "skipped"
        /\ Len(StepRows) > k
        /\ StepRows[k + 1].status = "success"
        /\ engine.execution.cost > 0

(***************************************************************************)
(* C36: when the router returns a Response for an agent step, the step     *)
(* ends success with the Response's model, token counts and cost recorded, *)
(* also when the content is plain text and the step has no outputSchema.   *)
(***************************************************************************)
C36_ResponseMeansSuccess ==
    \A n \in 1..Len(engine.invoked) :
        LET call == engine.invoked[n]
            row == StepRows[PlaceOf(call.stepId)]
        IN  (call.callee = "router.execute" /\ call.outcome = "returned")
            => /\ row.status = "success"
               /\ row.model_used = call.result.modelUsed
               /\ row.tokens_input = call.result.tokensInput
               /\ row.tokens_output = call.result.tokensOutput
               /\ row.cost = call.result.cost

(***************************************************************************)
(* C37: while the scheduler is stopped no cron job is registered and no    *)
(* workflow is triggered, whatever happens to the workflow files; start on *)
(* a running scheduler registers nothing more, and one change of a file    *)
(* causes at most one reload, also after a stop and a start.               *)
(***************************************************************************)
NoJobs(s) == DOMAIN s.cronJobs = {} /\ s.scheduled = EmptyBag

SchedulerStep ==
    /\ ~scheduler'.running => NoJobs(scheduler')
    /\ (~scheduler.running /\ scheduler'.fired # scheduler.fired)
          => scheduler'.fired = EmptyBag
    /\ scheduler.running => scheduler'.watchers = scheduler.watchers
    /\ scheduler'.files # scheduler.files
          => scheduler'.pending <= scheduler.pending + 1

C37_StoppedIsQuiet == [][SchedulerStep]_vars

(***************************************************************************)
(* C38: after every reload there is exactly one cron job per enabled       *)
(* workflow with a cron trigger and a valid schedule and none for any      *)
(* other file, the jobs of the previous load are stopped, and no schedule  *)
(* tick triggers a workflow twice.                                         *)
(***************************************************************************)
Eligible(files) ==
    { files[id].workflow :
        id \in { i \in WorkflowIds :
                   /\ files[i].kind = "workflow"
                   /\ files[i].workflow.enabled
                   /\ files[i].workflow.trigger = Trigger("cron", "0 9 * * *") } }

JobsMatch(s) ==
    /\ s.scheduled = SetToBag(Eligible(s.files))
    /\ DOMAIN s.cronJobs = {workflow.id : workflow \in Eligible(s.files)}
    /\ \A id \in DOMAIN s.cronJobs : s.cronJobs[id] = s.files[id].workflow

OncePerTick(s) ==
    \A w1, w2 \in BagToSet(s.fired) :
        /\ CopiesIn(w1, s.fired) = 1
        /\ w1.id = w2.id => w1 = w2

Reloaded ==
    \/ scheduler'.pending < scheduler.pending
    \/ ~scheduler.running /\ scheduler'.running

ReloadStep ==
    /\ Reloaded => JobsMatch(scheduler')
    /\ OncePerTick(scheduler')

C38_OneJobPerWorkflow == [][ReloadStep]_vars

C38_Witness ==
    /\ scheduler.running
    /\ scheduler.pending = 0
    /\ scheduler.files["6fa1c2"] = FileOf(Workflow("6fa1c2", TRUE, Trigger("webhook", "")))
    /\ BagToSet(scheduler.scheduled)
          = {Workflow("daily-summary", TRUE, Trigger("cron", "0 9 * * *"))}
    /\ scheduler.fired = scheduler.scheduled
    /\ JobsMatch(scheduler)

(***************************************************************************)
(* C39: what compileFromChat returns has enabled = false whatever the      *)
(* model answered, and a stored draft is neither registered as a cron job  *)
(* nor triggered until the user activates it.                              *)
(***************************************************************************)
C39_DraftsStayOff ==
    /\ compiler.pc = "returned" => ~compiler.result.enabled
    /\ \A id \in compiler.drafts :
          LET draft == scheduler.files[id]
          IN  /\ draft.kind = "workflow"
              /\ ~draft.workflow.enabled
              /\ draft.workflow \notin BagToSet(scheduler.scheduled)
              /\ draft.workflow \notin BagToSet(scheduler.fired)
              /\ \A job \in DOMAIN scheduler.cronJobs :
                    scheduler.cronJobs[job] # draft.workflow

C39_Witness ==
    /\ compiler.pc = "returned"
    /\ compiler.parsed.enabled
    /\ ~compiler.result.enabled
    /\ compiler.drafts = {"daily-summary"}
    /\ scheduler.running
    /\ scheduler.pending = 0
    /\ scheduler.fired # EmptyBag
    /\ BagToSet(scheduler.fired)
          = {Workflow("6fa1c2", TRUE, Trigger("cron", "0 9 * * *"))}

(***************************************************************************)
(* C40: safeJsonParse never throws; it returns the parsed value when the   *)
(* text is JSON and the fallback, as it was passed, when it is not.        *)
(***************************************************************************)
C40_ParsedOrFallback ==
    parsing.pc = "done"
    => /\ ~parsing.threw
       /\ IF JSONParse(parsing.value.tokens).ok
          THEN parsing.result = JSONParse(parsing.value.tokens)
          ELSE parsing.result = parsing.fallback

C40_Witness ==
    /\ parsing.pc = "done"
    /\ ~JSONParse(parsing.value.tokens).ok
    /\ parsing.fallback = [ok |-> TRUE, kind |-> "object", keys |-> {"name"}]
    /\ parsing.result = parsing.fallback

=============================================================================
